---- MODULE Spec2Model ----
(***************************************************************************)
(* Model of the concurrent security-scanning engine of apiguardian.py:     *)
(* analyze_apis_sequentially -> check_api_security ->                      *)
(* build_authorizer_cache (discovery pool, population pool) ->             *)
(* analyze_resource_methods workers -> update_report_file.                 *)
(*                                                                         *)
(* Optional values (Python None) are sequences of length <= 1:             *)
(* <<>> is None, <<v>> is the value v.                                     *)
(***************************************************************************)
EXTENDS Integers, Sequences, FiniteSets, TLC

\* ---------------------------------------------------------------- bounds
NumApis == 2
MaxRes == 2
PoolSize == 2
MaxFailures == 1

Apis == 1..NumApis
ResIds == 1..MaxRes
AuthorizerIds == {"a1", "a2"}

\* -------------------------------------------------- program constants
EXCLUDED_HTTP_METHODS == {"OPTIONS"}
PROPER_AUTH_TYPES == {"CUSTOM", "AWS_IAM", "COGNITO_USER_POOLS"}
ClaimsAuthTypes == {"CUSTOM", "COGNITO_USER_POOLS"}

\* data.get('authorizationType') of a record without the key (None).
NoAuthType == "None"

\* ----------------------------------------------- the remote inventory
\* What the remote API answers when a call succeeds.  The first API is the
\* large one (MaxRes resources, two authorizers, one of them shared by two
\* resources); every other API has a single resource without authorizers.
ApiSize(a) == IF a = 1 THEN MaxRes ELSE 1

\* 'resourceMethods' of a resource, in dict iteration order.
resourceMethods(a, r) ==
    CASE a = 1 /\ r = 1 -> <<"OPTIONS", "GET">>
      [] a = 1 /\ r = 2 -> <<"GET", "POST">>
      [] a = 1 /\ r > 2 -> <<"GET", "DELETE">>
      [] OTHER -> <<"DELETE", "POST">>

MethodRecord(type, id, key) ==
    [authorizationType |-> type, authorizerId |-> id, apiKeyRequired |-> key]

\* The get-method answer: authorizationType, authorizerId ("" when absent),
\* apiKeyRequired.
MethodData(a, r, m) ==
    CASE m = "OPTIONS" -> MethodRecord("NONE", "", FALSE)
      [] a = 1 /\ r = 1 /\ m = "GET" -> MethodRecord("CUSTOM", "a1", FALSE)
      [] a = 1 /\ r = 2 /\ m = "GET" -> MethodRecord("COGNITO_USER_POOLS", "a2", FALSE)
      [] a = 1 /\ r = 2 /\ m = "POST" -> MethodRecord("CUSTOM", "a1", FALSE)
      [] a = 1 /\ r > 2 /\ m = "GET" -> MethodRecord("NONE", "", TRUE)
      [] a = 1 /\ r > 2 /\ m = "DELETE" -> MethodRecord("AWS_IAM", "", TRUE)
      [] a > 1 /\ m = "DELETE" -> MethodRecord("AWS_IAM", "a2", FALSE)
      [] OTHER -> MethodRecord("NONE", "", TRUE)

\* The get-authorizer answer.
AuthorizerData(id) ==
    IF id = "a1" THEN [name |-> "AdminAuthorizer", identitySource |-> "hdr"]
    ELSE [name |-> "customer-pool", identitySource |-> "tok"]

\* ------------------------------------------------------------ helpers
Range(s) == {s[i] : i \in 1..Len(s)}

RECURSIVE SeqFilterOut(_, _)
SeqFilterOut(s, excluded) ==
    IF s = <<>> THEN <<>>
    ELSE IF Head(s) \in excluded THEN SeqFilterOut(Tail(s), excluded)
         ELSE <<Head(s)>> \o SeqFilterOut(Tail(s), excluded)

\* Mutation of filter_options_methods: nothing is excluded.
filter_nothing(methods) == methods

\* filter_options_methods: the method map without the excluded methods.
filter_options_methods(methods) == SeqFilterOut(methods, EXCLUDED_HTTP_METHODS)

\* Mutation of _has_proper_authorization: anything but NONE counts.
_has_any_authorization(auth_type) == auth_type # "NONE"

\* _has_proper_authorization: auth_type in PROPER_AUTH_TYPES
_has_proper_authorization(auth_type) == auth_type \in PROPER_AUTH_TYPES

\* Mutation of NeedsAuthorizer: any method with an authorizer id.
HasAuthorizerId(data) == data.authorizerId # ""

\* A method needs authorizer details iff it has an authorizer id and a
\* claims-bearing authorization type.
NeedsAuthorizer(data) ==
    data.authorizerId # "" /\ data.authorizationType \in ClaimsAuthTypes

\* Mutation of AuthorizerPoolSize: the authorizer pool is as large as the
\* resource pool.
WholePoolSize == PoolSize

\* check_api_security: authorizer_pool_size = max(1, resource_pool_size // 2)
AuthorizerPoolSize == IF PoolSize \div 2 >= 1 THEN PoolSize \div 2 ELSE 1

VARIABLES
    pc,                      \* position of the main thread
    idx,                     \* analyze_apis_sequentially: 1-based loop index
    exc,                     \* message of the exception being handled
    results,                 \* analyze_apis_sequentially: result list
    listing,                 \* outcome of each API's resource listing
    resources,               \* check_api_security: the fetched resource list
    result,                  \* value returned by check_api_security (optional)
    disc,                    \* discovery futures, by resource
    discIds,                 \* result of each discovery future
    unique_authorizer_ids,   \* build_authorizer_cache
    pop,                     \* population futures, by authorizer id
    popResult,               \* result of each population future (optional)
    authorizer_cache,        \* id -> optional authorizer detail
    ana,                     \* resource-analysis futures, by resource
    methods,                 \* per worker: optional result of get_resource_methods
    todo,                    \* per worker: methods still to process
    result_methods,          \* per worker: findings produced
    methods_filtered,        \* per worker: count of excluded methods
    lookupFailed,            \* per worker: get-method calls that returned None
    resources_with_auth,     \* check_api_security accumulators
    resources_without_auth,
    methods_filtered_total,
    report,                  \* rows of the CSV report file
    fetches,                 \* get_authorizer_details calls of this API scan
    invocations,             \* analyze_resource_methods calls of this API scan
    updateCalls,             \* update_report_file calls, by (api, resource, method)
    workers,                 \* running pool tasks, by API
    interrupted,             \* KeyboardInterrupt delivered to the main thread
    failures,                \* remote failures injected so far
    call,                    \* a direct call of a pure function: op, args, out
    apc,                     \* ConcurrentAnalyzer.analyze_apis: position of the caller
    atask,                   \* analyze_apis: futures, by API
    aresult,                 \* analyze_apis: result of each future (optional)
    aresults,                \* analyze_apis: the list 'results'
    acallbacks               \* analyze_apis: progress_callback invocations, by API

coordVars == <<idx, exc, results, listing>>
scanVars == <<resources, result>>
discVars == <<disc, discIds, unique_authorizer_ids>>
popVars == <<pop, popResult, authorizer_cache>>
taskVars == <<methods, todo, result_methods, methods_filtered, lookupFailed>>
accVars == <<resources_with_auth, resources_without_auth, methods_filtered_total>>
obsVars == <<fetches, invocations, updateCalls>>

\* The variables of the scan (all but 'call').
scanState == <<pc, ana, report, workers, interrupted, failures, coordVars,
               scanVars, discVars, popVars, taskVars, accVars, obsVars>>

analyzerVars == <<apc, atask, aresult, aresults, acallbacks>>

vars == <<scanState, call, analyzerVars>>

Calls ==
    {c \in Apis \X ResIds \X {"GET", "POST", "DELETE", "OPTIONS"} :
        /\ c[2] <= ApiSize(c[1])
        /\ c[3] \in Range(resourceMethods(c[1], c[2]))}

\* No pure function is being called directly.
NoCall == [op |-> "none", args |-> <<>>, out |-> <<>>, raised |-> <<>>]

NoTasks == [r \in ResIds |-> "none"]
NoPop == [id \in AuthorizerIds |-> "none"]
EmptyCache == [id \in AuthorizerIds |-> <<>>]

\* The state of the scan before the first API.
ScanInit ==
    /\ pc = "fetching"
    /\ idx = 1
    /\ exc = ""
    /\ results = <<>>
    /\ listing = [a \in Apis |-> "none"]
    /\ resources = <<>>
    /\ result = <<>>
    /\ disc = NoTasks
    /\ discIds = [r \in ResIds |-> {}]
    /\ unique_authorizer_ids = {}
    /\ pop = NoPop
    /\ popResult = EmptyCache
    /\ authorizer_cache = EmptyCache
    /\ ana = NoTasks
    /\ methods = [r \in ResIds |-> <<>>]
    /\ todo = [r \in ResIds |-> <<>>]
    /\ result_methods = [r \in ResIds |-> <<>>]
    /\ methods_filtered = [r \in ResIds |-> 0]
    /\ lookupFailed = [r \in ResIds |-> 0]
    /\ resources_with_auth = <<>>
    /\ resources_without_auth = <<>>
    /\ methods_filtered_total = 0
    /\ report = <<>>
    /\ fetches = [id \in AuthorizerIds |-> 0]
    /\ invocations = [r \in ResIds |-> 0]
    /\ updateCalls = [c \in Calls |-> 0]
    /\ workers = [a \in Apis |-> 0]
    /\ interrupted = FALSE
    /\ failures = 0

\* ConcurrentAnalyzer: the APIs of an analyze_apis call and its pool.
MaxAnalyzerApis == 3
MaxAnalyzerPool == 2
AnalyzerApis == 1..MaxAnalyzerApis

\* analyze_apis is not being called.
AnalyzerIdle ==
    /\ apc = "idle"
    /\ atask = [i \in AnalyzerApis |-> "none"]
    /\ aresult = [i \in AnalyzerApis |-> <<>>]
    /\ aresults = <<>>
    /\ acallbacks = [i \in AnalyzerApis |-> 0]

Init ==
    /\ ScanInit
    /\ call = NoCall
    /\ AnalyzerIdle

\* ------------------------------------------------------ result records
\* Mutation of FailedResult: the failure is reported without an error.
FailedResultNoError(a) ==
    [api_id |-> a, total_resources |-> 0, resources_without_auth |-> <<>>,
     resources_with_auth |-> <<>>, methods_filtered |-> 0, error |-> <<>>]

\* check_api_security, resource listing failed.
FailedResult(a) ==
    [api_id |-> a, total_resources |-> 0, resources_without_auth |-> <<>>,
     resources_with_auth |-> <<>>, methods_filtered |-> 0,
     error |-> <<"Failed to retrieve resources">>]

\* Mutation of EmptyResult: the empty listing is reported as an error.
EmptyResultWithError(a) ==
    [api_id |-> a, total_resources |-> 0, resources_without_auth |-> <<>>,
     resources_with_auth |-> <<>>, methods_filtered |-> 0,
     error |-> <<"No resources found">>]

\* check_api_security, the listing is empty.
EmptyResult(a) ==
    [api_id |-> a, total_resources |-> 0, resources_without_auth |-> <<>>,
     resources_with_auth |-> <<>>, methods_filtered |-> 0, error |-> <<>>]

\* check_api_security, end of a scan.
ScanResult(a, n, without, with, filtered) ==
    [api_id |-> a, total_resources |-> n, resources_without_auth |-> without,
     resources_with_auth |-> with, methods_filtered |-> filtered, error |-> <<>>]

\* analyze_apis_sequentially, check_api_security raised: error = str(e).
ExceptionResult(a, msg) ==
    [api_id |-> a, total_resources |-> 0, resources_without_auth |-> <<>>,
     resources_with_auth |-> <<>>, methods_filtered |-> 0, error |-> <<msg>>]

\* ------------------------------------------------------------ barriers
\* Mutation of AllCollected: the block is left without waiting for its futures.
NoBarrier(tasks, S) == TRUE

\* Leaving a 'with ThreadPoolExecutor' block after its as_completed loop:
\* every future of the pool has completed and has been handled ("collected"
\* when its result was used, "discarded" when it had raised).
AllCollected(tasks, S) == \A x \in S : tasks[x] \in {"collected", "discarded"}

\* No future of the pool is queued or executing (executor shutdown(wait=True)).
Drained(tasks, S) == \A x \in S : tasks[x] \notin {"pending", "running"}

Running(tasks, S) == Cardinality({x \in S : tasks[x] = "running"})

\* The executor's work queue is FIFO: a pool thread takes the task that was
\* submitted first among those still queued.
FirstQueued(tasks, r) == \A q \in ResIds : q < r => tasks[q] # "pending"

CurRes == Range(resources)

\* Mutation of AfterTaskException: the exception leaves check_api_security.
TaskExceptionPropagates(p) == "excepted"

\* The position after a future's exception was caught in an as_completed
\* loop: 'except Exception' logs (or passes) and the loop goes on.
AfterTaskException(p) == p

\* Mutation of Handled: a future that raised is not taken off the loop.
HandledUnlessRaised(status) == IF status = "raised" THEN "raised" ELSE "collected"

\* A handled future: its result was used, or it had raised.
Handled(status) == IF status = "raised" THEN "discarded" ELSE "collected"

\* ------------------------------------------------------- coordinator
\* The locals of a new check_api_security call.
ResetScan ==
    /\ discIds' = [r \in ResIds |-> {}]
    /\ unique_authorizer_ids' = {}
    /\ pop' = NoPop
    /\ popResult' = EmptyCache
    /\ authorizer_cache' = EmptyCache
    /\ ana' = NoTasks
    /\ methods' = [r \in ResIds |-> <<>>]
    /\ todo' = [r \in ResIds |-> <<>>]
    /\ result_methods' = [r \in ResIds |-> <<>>]
    /\ methods_filtered' = [r \in ResIds |-> 0]
    /\ lookupFailed' = [r \in ResIds |-> 0]
    /\ resources_with_auth' = <<>>
    /\ resources_without_auth' = <<>>
    /\ methods_filtered_total' = 0
    /\ fetches' = [id \in AuthorizerIds |-> 0]
    /\ invocations' = [r \in ResIds |-> 0]

\* get_resources returns None.
GetResourcesFails ==
    /\ pc = "fetching"
    /\ failures < MaxFailures
    /\ failures' = failures + 1
    /\ resources' = <<>>
    /\ disc' = NoTasks
    /\ ResetScan
    /\ result' = <<FailedResult(idx)>>
    /\ pc' = "summarized"
    /\ listing' = [listing EXCEPT ![idx] = "failed"]
    /\ UNCHANGED <<analyzerVars, call, idx, exc, results, report, updateCalls, workers, interrupted>>

\* check_api_security raises before any pool exists (malformed listing).
GetResourcesRaises ==
    /\ pc = "fetching"
    /\ failures < MaxFailures
    /\ failures' = failures + 1
    /\ \E msg \in {"", "AttributeError"} : exc' = msg
    /\ resources' = <<>>
    /\ disc' = NoTasks
    /\ ResetScan
    /\ result' = <<>>
    /\ pc' = "excepted"
    /\ listing' = [listing EXCEPT ![idx] = "raised"]
    /\ UNCHANGED <<analyzerVars, call, idx, results, report, updateCalls, workers, interrupted>>

\* get_resources returns a list: empty, or the discovery tasks are submitted.
GetResourcesOk ==
    /\ pc = "fetching"
    /\ \E n \in 0..ApiSize(idx) :
         /\ resources' = [i \in 1..n |-> i]
         /\ disc' = [r \in ResIds |-> IF r <= n THEN "pending" ELSE "none"]
         /\ IF n = 0
            THEN result' = <<EmptyResult(idx)>> /\ pc' = "summarized"
            ELSE result' = <<>> /\ pc' = "discovery"
    /\ listing' = [listing EXCEPT ![idx] = "listed"]
    /\ ResetScan
    /\ UNCHANGED <<analyzerVars, call, idx, exc, results, report, updateCalls, workers, interrupted,
                   failures>>

\* analyze_apis_sequentially: results.append(result), next iteration.
AppendResult ==
    /\ pc = "summarized"
    /\ results' = Append(results, result[1])
    /\ idx' = idx + 1
    /\ pc' = IF idx = NumApis THEN "done" ELSE "fetching"
    /\ UNCHANGED <<analyzerVars, call, exc, listing, ana, report, workers, interrupted, failures,
                   scanVars, discVars, popVars, taskVars, accVars, obsVars>>

\* analyze_apis_sequentially: except Exception as e.
AppendError ==
    /\ pc = "excepted"
    /\ results' = Append(results, ExceptionResult(idx, exc))
    /\ idx' = idx + 1
    /\ pc' = IF idx = NumApis THEN "done" ELSE "fetching"
    /\ UNCHANGED <<analyzerVars, call, exc, listing, ana, report, workers, interrupted, failures,
                   scanVars, discVars, popVars, taskVars, accVars, obsVars>>

\* ------------------------------------------- phase 1: discovery pool
\* A pool thread takes a queued _collect_authorizer_ids_from_resource task.
DiscStart(r) ==
    /\ pc = "discovery"
    /\ disc[r] = "pending"
    /\ FirstQueued(disc, r)
    /\ Running(disc, ResIds) < PoolSize
    /\ disc' = [disc EXCEPT ![r] = "running"]
    /\ workers' = [workers EXCEPT ![idx] = @ + 1]
    /\ UNCHANGED <<analyzerVars, call, pc, ana, report, interrupted, failures, coordVars, scanVars,
                   discIds, unique_authorizer_ids, popVars, taskVars, accVars,
                   obsVars>>

\* Mutation of CollectedIds: only the ids of CUSTOM methods are collected.
CollectedIdsCustomOnly(a, r, okMethods) ==
    {MethodData(a, r, m).authorizerId :
        m \in {x \in okMethods : /\ x # "OPTIONS"
                                  /\ NeedsAuthorizer(MethodData(a, r, x))
                                  /\ MethodData(a, r, x).authorizationType = "CUSTOM"}}

\* The ids one discovery task collects when the get-method calls of the
\* methods in 'okMethods' succeed and the others fail.
CollectedIds(a, r, okMethods) ==
    {MethodData(a, r, m).authorizerId :
        m \in {x \in okMethods : x # "OPTIONS" /\ NeedsAuthorizer(MethodData(a, r, x))}}

\* _collect_authorizer_ids_from_resource returns its set.
DiscRun(r) ==
    /\ pc = "discovery"
    /\ disc[r] = "running"
    /\ LET listed == Range(resourceMethods(idx, r)) \ {"OPTIONS"} IN
       \E okMethods \in SUBSET listed :
         /\ failures + Cardinality(listed \ okMethods) <= MaxFailures
         /\ failures' = failures + Cardinality(listed \ okMethods)
         /\ discIds' = [discIds EXCEPT ![r] = CollectedIds(idx, r, okMethods)]
    /\ disc' = [disc EXCEPT ![r] = "finished"]
    /\ workers' = [workers EXCEPT ![idx] = @ - 1]
    /\ UNCHANGED <<analyzerVars, call, pc, ana, report, interrupted, coordVars, scanVars,
                   unique_authorizer_ids, popVars, taskVars, accVars, obsVars>>

\* _collect_authorizer_ids_from_resource raises (malformed resource record).
DiscRaise(r) ==
    /\ pc = "discovery"
    /\ disc[r] = "running"
    /\ failures < MaxFailures
    /\ failures' = failures + 1
    /\ disc' = [disc EXCEPT ![r] = "raised"]
    /\ workers' = [workers EXCEPT ![idx] = @ - 1]
    /\ UNCHANGED <<analyzerVars, call, pc, ana, report, interrupted, coordVars, scanVars, discIds,
                   unique_authorizer_ids, popVars, taskVars, accVars, obsVars>>

\* Main thread, as_completed loop of phase 1.
DiscCollect(r) ==
    /\ pc = "discovery"
    /\ ~interrupted
    /\ disc[r] \in {"finished", "raised"}
    /\ unique_authorizer_ids' =
         IF disc[r] = "finished" THEN unique_authorizer_ids \cup discIds[r]
         ELSE unique_authorizer_ids
    /\ pc' = IF disc[r] = "raised" THEN AfterTaskException(pc) ELSE pc
    /\ disc' = [disc EXCEPT ![r] = Handled(disc[r])]
    /\ UNCHANGED <<analyzerVars, call, ana, report, workers, interrupted, failures, coordVars,
                   scanVars, discIds, popVars, taskVars, accVars, obsVars>>

\* The analysis tasks as submitted by check_api_security.
SubmittedAnalysis == [r \in ResIds |-> IF r \in CurRes THEN "pending" ELSE "none"]

\* End of phase 1: the pool is left; phase 2 is submitted, or skipped when
\* no id was found and the analysis tasks are submitted at once.
DiscBarrier ==
    /\ pc = "discovery"
    /\ ~interrupted
    /\ AllCollected(disc, CurRes)
    /\ IF unique_authorizer_ids # {}
       THEN /\ pc' = "population"
            /\ pop' = [id \in AuthorizerIds |->
                         IF id \in unique_authorizer_ids THEN "pending" ELSE "none"]
            /\ ana' = ana
       ELSE /\ pc' = "analysis"
            /\ ana' = SubmittedAnalysis
            /\ pop' = pop
    /\ UNCHANGED <<analyzerVars, call, report, workers, interrupted, failures, coordVars, scanVars,
                   discVars, popResult, authorizer_cache, taskVars, accVars,
                   obsVars>>

\* ------------------------------------------ phase 2: population pool
\* A pool thread takes a queued get_authorizer_details task.
PopStart(id) ==
    /\ pc = "population"
    /\ pop[id] = "pending"
    /\ Running(pop, AuthorizerIds) < AuthorizerPoolSize
    /\ pop' = [pop EXCEPT ![id] = "running"]
    /\ workers' = [workers EXCEPT ![idx] = @ + 1]
    /\ UNCHANGED <<analyzerVars, call, pc, ana, report, interrupted, failures, coordVars, scanVars,
                   discVars, popResult, authorizer_cache, taskVars, accVars,
                   obsVars>>

\* get_authorizer_details returns: the detail, or None when the call failed.
PopRun(id) ==
    /\ pc = "population"
    /\ pop[id] = "running"
    /\ fetches' = [fetches EXCEPT ![id] = @ + 1]
    /\ \/ /\ popResult' = [popResult EXCEPT ![id] = <<AuthorizerData(id)>>]
          /\ failures' = failures
       \/ /\ failures < MaxFailures
          /\ failures' = failures + 1
          /\ popResult' = [popResult EXCEPT ![id] = <<>>]
    /\ pop' = [pop EXCEPT ![id] = "finished"]
    /\ workers' = [workers EXCEPT ![idx] = @ - 1]
    /\ UNCHANGED <<analyzerVars, call, pc, ana, report, interrupted, coordVars, scanVars, discVars,
                   authorizer_cache, taskVars, accVars, invocations, updateCalls>>

\* get_authorizer_details raises (malformed answer).
PopRaise(id) ==
    /\ pc = "population"
    /\ pop[id] = "running"
    /\ failures < MaxFailures
    /\ failures' = failures + 1
    /\ fetches' = [fetches EXCEPT ![id] = @ + 1]
    /\ pop' = [pop EXCEPT ![id] = "raised"]
    /\ workers' = [workers EXCEPT ![idx] = @ - 1]
    /\ UNCHANGED <<analyzerVars, call, pc, ana, report, interrupted, coordVars, scanVars, discVars,
                   popResult, authorizer_cache, taskVars, accVars, invocations,
                   updateCalls>>

\* Mutation of CacheInsert: the cache is rebuilt around the new entry.
CacheInsertReplacing(cache, id, details) ==
    [k \in AuthorizerIds |-> IF k = id THEN details ELSE <<>>]

\* authorizer_cache[auth_id] = auth_details
CacheInsert(cache, id, details) == [cache EXCEPT ![id] = details]

\* Main thread, as_completed loop of phase 2.
PopCollect(id) ==
    /\ pc = "population"
    /\ ~interrupted
    /\ pop[id] \in {"finished", "raised"}
    /\ authorizer_cache' =
         IF pop[id] = "finished" /\ popResult[id] # <<>>
         THEN CacheInsert(authorizer_cache, id, popResult[id])
         ELSE authorizer_cache
    /\ pc' = IF pop[id] = "raised" THEN AfterTaskException(pc) ELSE pc
    /\ pop' = [pop EXCEPT ![id] = Handled(pop[id])]
    /\ UNCHANGED <<analyzerVars, call, ana, report, workers, interrupted, failures, coordVars,
                   scanVars, discVars, popResult, taskVars, accVars, obsVars>>

\* End of phase 2: build_authorizer_cache returns, the analysis tasks are
\* submitted.
PopBarrier ==
    /\ pc = "population"
    /\ ~interrupted
    /\ AllCollected(pop, unique_authorizer_ids)
    /\ pc' = "analysis"
    /\ ana' = SubmittedAnalysis
    /\ UNCHANGED <<analyzerVars, call, report, workers, interrupted, failures, coordVars, scanVars,
                   discVars, popVars, taskVars, accVars, obsVars>>

\* ------------------------------------- phase 3: resource-analysis pool
\* Mutation of EmptyTaskResult: the methods are counted as filtered.
MiscountedTaskResult == [methods |-> <<>>, methods_filtered |-> 1]

\* analyze_resource_methods, 'if not methods': the result returned when the
\* method set could not be fetched.
EmptyTaskResult == [methods |-> <<>>, methods_filtered |-> 0]

\* A pool thread takes a queued analyze_resource_methods task; the task
\* fetches the resource's method set and filters the excluded methods.  A
\* failed fetch (None) leaves nothing to process.
AnaStart(r) ==
    /\ pc = "analysis"
    /\ ana[r] = "pending"
    /\ FirstQueued(ana, r)
    /\ Running(ana, ResIds) < PoolSize
    /\ ana' = [ana EXCEPT ![r] = "running"]
    /\ invocations' = [invocations EXCEPT ![r] = @ + 1]
    /\ workers' = [workers EXCEPT ![idx] = @ + 1]
    /\ \/ /\ methods' = [methods EXCEPT ![r] = <<resourceMethods(idx, r)>>]
          /\ todo' = [todo EXCEPT ![r] = filter_options_methods(resourceMethods(idx, r))]
          /\ methods_filtered' =
               [methods_filtered EXCEPT ![r] =
                  Len(resourceMethods(idx, r))
                    - Len(filter_options_methods(resourceMethods(idx, r)))]
          /\ failures' = failures
       \/ /\ failures < MaxFailures
          /\ failures' = failures + 1
          /\ methods' = [methods EXCEPT ![r] = <<>>]
          /\ todo' = [todo EXCEPT ![r] = EmptyTaskResult.methods]
          /\ methods_filtered' =
               [methods_filtered EXCEPT ![r] = EmptyTaskResult.methods_filtered]
    /\ UNCHANGED <<analyzerVars, call, pc, report, interrupted, coordVars, scanVars, discVars, popVars,
                   result_methods, lookupFailed, accVars, fetches, updateCalls>>

\* get_method_authorization: 'authorizer_cache and authorizer_id in
\* authorizer_cache'.
CacheHit(cache, id) ==
    /\ \E k \in AuthorizerIds : cache[k] # <<>>
    /\ cache[id] # <<>>

\* Mutation of Finding: without an endpoint the authorization data is lost.
FindingLosingAuth(a, r, m, data, details, url) ==
    [api |-> a, resource_id |-> r, method |-> m,
     authorizationType |-> IF url = "" THEN "NONE" ELSE data.authorizationType,
     authorizerId |-> IF url = "" THEN "" ELSE data.authorizerId,
     authorizerName |-> IF details # <<>> THEN details[1].name ELSE "",
     identitySource |-> IF details # <<>> THEN details[1].identitySource ELSE "",
     apiKeyRequired |-> data.apiKeyRequired,
     endpointUrl |-> url]

\* The method_auth record built by analyze_resource_methods, together with
\* the api_name it is reported under; a resource's path is identified with
\* its id.
Finding(a, r, m, data, details, url) ==
    [api |-> a, resource_id |-> r, method |-> m,
     authorizationType |-> data.authorizationType,
     authorizerId |-> data.authorizerId,
     authorizerName |-> IF details # <<>> THEN details[1].name ELSE "",
     identitySource |-> IF details # <<>> THEN details[1].identitySource ELSE "",
     apiKeyRequired |-> data.apiKeyRequired,
     endpointUrl |-> url]

\* Mutation of ReportRow: a required API key counts as authorization.
ReportRowKeyAuthorizes(f) ==
    [api |-> f.api, method |-> f.method, resource_id |-> f.resource_id,
     is_authorized |-> IF _has_proper_authorization(f.authorizationType)
                            \/ f.apiKeyRequired
                       THEN "YES" ELSE "NO",
     authorization_type |-> IF f.authorizationType = NoAuthType THEN "NONE"
                            ELSE f.authorizationType,
     authorizer_name |-> IF f.authorizerName # "" THEN f.authorizerName ELSE "NONE",
     api_key |-> IF f.apiKeyRequired THEN "YES" ELSE "NO",
     endpoint_url |-> f.endpointUrl]

\* The CSV row update_report_file writes for a finding.
ReportRow(f) ==
    [api |-> f.api, method |-> f.method, resource_id |-> f.resource_id,
     is_authorized |-> IF _has_proper_authorization(f.authorizationType)
                       THEN "YES" ELSE "NO",
     authorization_type |-> IF f.authorizationType = NoAuthType THEN "NONE"
                            ELSE f.authorizationType,
     authorizer_name |-> IF f.authorizerName # "" THEN f.authorizerName ELSE "NONE",
     api_key |-> IF f.apiKeyRequired THEN "YES" ELSE "NO",
     endpoint_url |-> f.endpointUrl]

\* Mutation of WriteRow: the row is written twice.
WriteRowTwice(rep, row) == Append(Append(rep, row), row)

\* Mutation of WriteRow: the row is put at the head of the file.
WriteRowFirst(rep, row) == <<row>> \o rep

\* update_report_file: open(report_file, 'a') ... writer.writerow(row)
WriteRow(rep, row) == Append(rep, row)

\* get_method_authorization returns None: the method is skipped.
AnaMethodFails(r) ==
    /\ pc = "analysis"
    /\ ana[r] = "running"
    /\ todo[r] # <<>>
    /\ failures < MaxFailures
    /\ failures' = failures + 1
    /\ todo' = [todo EXCEPT ![r] = Tail(@)]
    /\ lookupFailed' = [lookupFailed EXCEPT ![r] = @ + 1]
    /\ UNCHANGED <<analyzerVars, call, pc, ana, report, workers, interrupted, coordVars, scanVars,
                   discVars, popVars, methods, result_methods, methods_filtered,
                   accVars, obsVars>>

\* The task raises while processing a method (malformed get-method answer).
AnaMethodRaises(r) ==
    /\ pc = "analysis"
    /\ ana[r] = "running"
    /\ todo[r] # <<>>
    /\ failures < MaxFailures
    /\ failures' = failures + 1
    /\ ana' = [ana EXCEPT ![r] = "raised"]
    /\ workers' = [workers EXCEPT ![idx] = @ - 1]
    /\ UNCHANGED <<analyzerVars, call, pc, report, interrupted, coordVars, scanVars, discVars, popVars,
                   taskVars, accVars, obsVars>>

\* One iteration of the method loop with a successful get-method:
\* authorizer resolution (cache, else a direct get_authorizer_details),
\* integration lookup, the finding, the report row.
AnaMethodOk(r) ==
    /\ pc = "analysis"
    /\ ana[r] = "running"
    /\ todo[r] # <<>>
    /\ LET m == Head(todo[r])
           data == MethodData(idx, r, m)
           id == data.authorizerId
           needs == NeedsAuthorizer(data)
           hit == needs /\ CacheHit(authorizer_cache, id)
           fetch == needs /\ ~hit
       IN \E fetchOk, integOk, writeOk \in BOOLEAN :
            LET cost == (IF fetch /\ ~fetchOk THEN 1 ELSE 0)
                          + (IF integOk THEN 0 ELSE 1)
                          + (IF writeOk THEN 0 ELSE 1)
                details == IF hit THEN authorizer_cache[id]
                           ELSE IF fetch /\ fetchOk THEN <<AuthorizerData(id)>>
                           ELSE <<>>
                f == Finding(idx, r, m, data, details,
                             IF integOk THEN "/backend" ELSE "")
            IN /\ (~fetch) => fetchOk
               /\ failures + cost <= MaxFailures
               /\ failures' = failures + cost
               /\ fetches' = IF fetch THEN [fetches EXCEPT ![id] = @ + 1]
                             ELSE fetches
               /\ result_methods' = [result_methods EXCEPT ![r] = Append(@, f)]
               /\ updateCalls' = [updateCalls EXCEPT ![<<idx, r, m>>] = @ + 1]
               /\ report' = IF writeOk THEN WriteRow(report, ReportRow(f))
                            ELSE report
    /\ todo' = [todo EXCEPT ![r] = Tail(@)]
    /\ UNCHANGED <<analyzerVars, call, pc, ana, workers, interrupted, coordVars, scanVars, discVars,
                   popVars, methods, methods_filtered, lookupFailed, accVars,
                   invocations>>

\* analyze_resource_methods returns.
AnaFinish(r) ==
    /\ pc = "analysis"
    /\ ana[r] = "running"
    /\ todo[r] = <<>>
    /\ ana' = [ana EXCEPT ![r] = "finished"]
    /\ workers' = [workers EXCEPT ![idx] = @ - 1]
    /\ UNCHANGED <<analyzerVars, call, pc, report, interrupted, failures, coordVars, scanVars,
                   discVars, popVars, taskVars, accVars, obsVars>>

\* The findings of a task's result whose authorization is proper (keep =
\* TRUE) or not (keep = FALSE), in the result's order.
RECURSIVE SelectByAuth(_, _)
SelectByAuth(s, keep) ==
    IF s = <<>> THEN <<>>
    ELSE IF _has_proper_authorization(Head(s).authorizationType) = keep
         THEN <<Head(s)>> \o SelectByAuth(Tail(s), keep)
         ELSE SelectByAuth(Tail(s), keep)

\* Main thread, as_completed loop of phase 3: aggregate one future.
AnaCollect(r) ==
    /\ pc = "analysis"
    /\ ~interrupted
    /\ ana[r] \in {"finished", "raised"}
    /\ IF ana[r] = "finished"
       THEN /\ methods_filtered_total' = methods_filtered_total + methods_filtered[r]
            /\ resources_with_auth' =
                 resources_with_auth \o SelectByAuth(result_methods[r], TRUE)
            /\ resources_without_auth' =
                 resources_without_auth \o SelectByAuth(result_methods[r], FALSE)
            /\ pc' = pc
       ELSE /\ UNCHANGED accVars
            /\ pc' = AfterTaskException(pc)
    /\ ana' = [ana EXCEPT ![r] = Handled(ana[r])]
    /\ UNCHANGED <<analyzerVars, call, report, workers, interrupted, failures, coordVars, scanVars,
                   discVars, popVars, taskVars, obsVars>>

\* check_api_security leaves the pool and returns its result.
Summarize ==
    /\ pc = "analysis"
    /\ ~interrupted
    /\ AllCollected(ana, CurRes)
    /\ result' = <<ScanResult(idx, Len(resources), resources_without_auth,
                              resources_with_auth, methods_filtered_total)>>
    /\ pc' = "summarized"
    /\ UNCHANGED <<analyzerVars, call, ana, resources, report, workers, interrupted, failures,
                   coordVars, discVars, popVars, taskVars, accVars, obsVars>>

\* ----------------------------------------------------------- interrupt
PoolPhases == {"discovery", "population", "analysis"}

\* KeyboardInterrupt reaches the main thread while it is inside a pool's
\* 'with' block: no 'except Exception' catches it.
Interrupt ==
    /\ pc \in PoolPhases
    /\ ~interrupted
    /\ interrupted' = TRUE
    /\ UNCHANGED <<analyzerVars, call, pc, ana, report, workers, failures, coordVars, scanVars,
                   discVars, popVars, taskVars, accVars, obsVars>>

\* The executor's __exit__ (shutdown(wait=True)) returns once its queue is
\* drained; the interrupt then unwinds to main(), which returns 1.
Unwind ==
    /\ interrupted
    /\ \/ pc = "discovery" /\ Drained(disc, ResIds)
       \/ pc = "population" /\ Drained(pop, AuthorizerIds)
       \/ pc = "analysis" /\ Drained(ana, ResIds)
    /\ pc' = "cancelled"
    /\ UNCHANGED <<analyzerVars, call, ana, report, workers, interrupted, failures, coordVars,
                   scanVars, discVars, popVars, taskVars, accVars, obsVars>>

Next ==
    \/ GetResourcesFails
    \/ GetResourcesRaises
    \/ GetResourcesOk
    \/ AppendResult
    \/ AppendError
    \/ \E r \in ResIds : DiscStart(r)
    \/ \E r \in ResIds : DiscRun(r)
    \/ \E r \in ResIds : DiscRaise(r)
    \/ \E r \in ResIds : DiscCollect(r)
    \/ DiscBarrier
    \/ \E id \in AuthorizerIds : PopStart(id)
    \/ \E id \in AuthorizerIds : PopRun(id)
    \/ \E id \in AuthorizerIds : PopRaise(id)
    \/ \E id \in AuthorizerIds : PopCollect(id)
    \/ PopBarrier
    \/ \E r \in ResIds : AnaStart(r)
    \/ \E r \in ResIds : AnaMethodFails(r)
    \/ \E r \in ResIds : AnaMethodRaises(r)
    \/ \E r \in ResIds : AnaMethodOk(r)
    \/ \E r \in ResIds : AnaFinish(r)
    \/ \E r \in ResIds : AnaCollect(r)
    \/ Summarize
    \/ Interrupt
    \/ Unwind

Spec == Init /\ [][Next]_vars

\* The program's own steps: every step but the arrival of the interrupt.  A
\* remote call is made inside the step of the thread that makes it, so a
\* step that stays possible and is eventually taken is a thread that is
\* scheduled and whose remote call returns, with success or failure.
ProgramStep == Next /\ interrupted' = interrupted

LiveSpec == Init /\ [][Next]_vars /\ WF_vars(ProgramStep)

\* =====================================================================
\* Properties
\* =====================================================================
Done == {"collected", "discarded"}

\* A scan (non-empty resource list) has returned from check_api_security.
ScanDone == pc = "summarized" /\ resources # <<>>

FindingsOf(res) == Len(res.resources_with_auth) + Len(res.resources_without_auth)

\* Number of methods of a method list that are not the preflight method.
NonExcludedCount(ms) == Cardinality({i \in 1..Len(ms) : ms[i] # "OPTIONS"})

RECURSIVE SumTo(_, _)
SumTo(f, n) == IF n = 0 THEN 0 ELSE f[n] + SumTo(f, n - 1)

\* Authorizer ids referenced by the claims-bearing methods of the first n
\* resources of API a.
ReferencedIds(a, n) ==
    {MethodData(a, r, resourceMethods(a, r)[i]).authorizerId :
        <<r, i>> \in {p \in (1..n) \X (1..2) :
                        /\ p[2] <= Len(resourceMethods(a, p[1]))
                        /\ NeedsAuthorizer(
                             MethodData(a, p[1], resourceMethods(a, p[1])[p[2]]))}}

\* The (api, resource, method) tuple of a report row and of a finding.
RowKey(i) == <<report[i].api, report[i].resource_id, report[i].method>>

FindingKey(f) == <<f.api, f.resource_id, f.method>>

\* C1: when a scan has returned, every authorizer id referenced by a
\* claims-bearing method of the API was fetched exactly once (population and
\* workers counted together) and no other id was fetched.
C1_FetchesEqualDistinctIds ==
    ScanDone =>
      \A id \in AuthorizerIds :
        fetches[id] = IF id \in ReferencedIds(idx, Len(resources)) THEN 1 ELSE 0

\* C2: a population task exists only once every discovery future has been
\* handled; an analysis task exists only once every discovery and every
\* population future has been handled, a fetched detail being in the cache.
C2_PhaseBarriers ==
    /\ (\E id \in AuthorizerIds : pop[id] # "none")
         => \A r \in CurRes : disc[r] \in Done
    /\ (\E r \in ResIds : ana[r] # "none")
         => /\ \A r \in CurRes : disc[r] \in Done
            /\ \A id \in AuthorizerIds : pop[id] \in Done \cup {"none"}
            /\ \A id \in unique_authorizer_ids :
                 /\ pop[id] \in Done
                 /\ (pop[id] = "collected" /\ popResult[id] # <<>>)
                      => authorizer_cache[id] = popResult[id]

C2_Witness ==
    /\ \E r \in ResIds : ana[r] = "running"
    /\ \E id \in AuthorizerIds : authorizer_cache[id] # <<>>

\* C3: only the API being scanned has running pool tasks, and while API idx
\* is fetched or scanned the results of all earlier APIs, and only those,
\* are in the result list.
C3_OneApiAtATime ==
    /\ \A a \in Apis : workers[a] > 0 => (a = idx /\ pc \in PoolPhases)
    /\ pc \in PoolPhases \cup {"fetching"} => Len(results) = idx - 1
    /\ \A k \in 1..Len(results) : results[k].api_id = k

C3_Witness ==
    /\ idx = 2
    /\ workers[2] > 0
    /\ FindingsOf(results[1]) > 0

\* Findings a worker contributes: none when it raised or its method-set fetch
\* failed, else one per non-excluded method whose lookup returned a record.
ExpectedFindings ==
    [r \in ResIds |->
       IF ana[r] = "collected" /\ methods[r] # <<>>
       THEN NonExcludedCount(methods[r][1]) - lookupFailed[r]
       ELSE 0]

C6_OneResultPerApiInOrder ==
    /\ Len(results) = idx - 1
    /\ pc = "done" => idx = NumApis + 1
    /\ \A k \in 1..Len(results) :
         /\ results[k].api_id = k
         /\ listing[k] = "failed" =>
              /\ results[k].error # <<>>
              /\ results[k].error[1] # ""
              /\ FindingsOf(results[k]) = 0
         /\ listing[k] = "listed" => results[k].error = <<>>
    /\ (pc = "done"
          /\ failures = Cardinality({a \in Apis : listing[a] \in {"failed", "raised"}}))
         => \A k \in 1..Len(results) :
              listing[k] = "listed" =>
                FindingsOf(results[k]) =
                  SumTo([r \in ResIds |-> NonExcludedCount(resourceMethods(k, r))],
                        results[k].total_resources)

C6_Witness ==
    /\ pc = "done"
    /\ \E k \in 1..(NumApis - 1) :
         /\ listing[k] = "failed"
         /\ FindingsOf(results[k + 1]) > 0

\* C7: an id whose population fetch failed stays out of the cache, is
\* fetched no second time, and findings that reference it carry no
\* authorizer name.
C7_FailedFetchNotRetried ==
    \A id \in AuthorizerIds :
      (pop[id] = "discarded" \/ (pop[id] = "collected" /\ popResult[id] = <<>>))
        => /\ authorizer_cache[id] = <<>>
           /\ fetches[id] = 1
           /\ \A r \in ResIds : \A f \in Range(result_methods[r]) :
                f.authorizerId = id => f.authorizerName = ""

\* C8: the cache changes only by a fresh cache at the start of a scan or, in
\* the population phase and before any analysis task exists, by filling a
\* key that was empty; it never changes while analysis tasks are queued or
\* running.
C8_CacheStep ==
    /\ \A id \in AuthorizerIds :
         authorizer_cache'[id] # authorizer_cache[id] =>
           \/ pc = "fetching" /\ authorizer_cache' = EmptyCache
           \/ /\ pc = "population"
              /\ authorizer_cache[id] = <<>>
              /\ \A r \in ResIds : ana[r] = "none"
    /\ (\E r \in ResIds : ana[r] \in {"pending", "running"})
         => authorizer_cache' = authorizer_cache

C8_CacheWriteOnce == [][C8_CacheStep]_vars

C8_Witness ==
    /\ \E r \in ResIds : ana[r] = "running"
    /\ \A id \in AuthorizerIds : authorizer_cache[id] # <<>>

\* C9: once the interrupt has been delivered no queued analysis task is
\* started.
C9_NoStartAfterInterrupt ==
    [][interrupted => \A r \in ResIds : ana[r] = "pending" => ana'[r] = "pending"]_vars

\* C10: a task's exception never leaves check_api_security; a returned scan
\* has error = None, every task of its pools was handled, and its findings
\* are those of the analysis tasks that returned.
C10_TaskExceptionIsolated ==
    /\ pc = "excepted" => listing[idx] = "raised"
    /\ ScanDone =>
         /\ result[1].error = <<>>
         /\ \A r \in CurRes : disc[r] \in Done /\ ana[r] \in Done
         /\ FindingsOf(result[1]) =
              SumTo([r \in ResIds |-> IF ana[r] = "collected"
                                      THEN Len(result_methods[r]) ELSE 0],
                    Len(resources))

C10_Witness ==
    /\ ScanDone
    /\ \E r1, r2 \in CurRes :
         /\ ana[r1] = "discarded"
         /\ ana[r2] = "collected"
         /\ result_methods[r2] # <<>>
    /\ FindingsOf(result[1]) > 0

\* The larger of two numbers.
MaxOf(x, y) == IF x >= y THEN x ELSE y

\* No pool of the current scan was created and no task of it ran.
NoPoolStarted ==
    /\ disc = NoTasks /\ pop = NoPop /\ ana = NoTasks
    /\ \A r \in ResIds : invocations[r] = 0
    /\ \A id \in AuthorizerIds : fetches[id] = 0

\* C11: every non-excluded method of a resource task that returned with a
\* fetched method set is represented by a finding, also when its
\* authorization lookup returned no record.
C11_LookupFailureStillReported ==
    \A r \in ResIds :
      (ana[r] \in {"finished", "collected"} /\ methods[r] # <<>>) =>
        \A i \in 1..Len(methods[r][1]) :
          methods[r][1][i] \notin EXCLUDED_HTTP_METHODS =>
            \E j \in 1..Len(result_methods[r]) :
              result_methods[r][j].method = methods[r][1][i]

\* C17: a call of check_api_security that returned did so from an empty
\* listing (no error, no findings), a failed listing (non-empty error, no
\* findings) or a scan (no error); in the first two cases no pool was created
\* and no task ran, and pools exist only for a non-empty listing.
C17_ScanStateMachine ==
    /\ pc \in PoolPhases => (listing[idx] = "listed" /\ resources # <<>>)
    /\ pc = "summarized" =>
         /\ result # <<>>
         /\ listing[idx] \in {"failed", "listed"}
         /\ listing[idx] = "failed" =>
              /\ result[1].error # <<>> /\ result[1].error[1] # ""
              /\ FindingsOf(result[1]) = 0
              /\ NoPoolStarted
         /\ (listing[idx] = "listed" /\ resources = <<>>) =>
              /\ result[1].error = <<>>
              /\ FindingsOf(result[1]) = 0
              /\ NoPoolStarted
         /\ (listing[idx] = "listed" /\ resources # <<>>) =>
              /\ result[1].error = <<>>
              /\ \A r \in CurRes : ana[r] \in Done

C17_Witness ==
    /\ idx = 2
    /\ listing[1] = "failed"
    /\ pc = "summarized"
    /\ listing[2] = "listed"
    /\ resources = <<>>

C19_MethodFetchFailureContributesNothing ==
    pc \in {"analysis", "summarized", "cancelled"} =>
      /\ \A r \in ResIds :
           (ana[r] \notin {"none", "pending"} /\ methods[r] = <<>>) =>
             /\ ana[r] \in {"running", "finished", "collected"}
             /\ result_methods[r] = <<>>
             /\ methods_filtered[r] = 0
             /\ \A c \in DOMAIN updateCalls :
                  (c[1] = idx /\ c[2] = r) => updateCalls[c] = 0
             /\ \A i \in 1..Len(report) :
                  ~(report[i].api = idx /\ report[i].resource_id = r)
      /\ ScanDone =>
           /\ FindingsOf(result[1]) =
                SumTo([r \in ResIds |-> IF ana[r] = "collected" /\ methods[r] # <<>>
                                        THEN Len(result_methods[r]) ELSE 0],
                      Len(resources))
           /\ result[1].methods_filtered =
                SumTo([r \in ResIds |-> IF ana[r] = "collected" /\ methods[r] # <<>>
                                        THEN methods_filtered[r] ELSE 0],
                      Len(resources))

C19_Witness ==
    /\ ScanDone
    /\ \E r1, r2 \in CurRes :
         /\ ana[r1] = "collected" /\ methods[r1] = <<>>
         /\ ana[r2] = "collected" /\ result_methods[r2] # <<>>
    /\ FindingsOf(result[1]) > 0

\* The findings analyze_resource_methods can produce for a method, apart
\* from the endpoint URL.
FindingsFor(a, r, m) ==
    LET data == MethodData(a, r, m) IN
    {Finding(a, r, m, data, d, "/backend") :
        d \in IF NeedsAuthorizer(data)
              THEN {<<>>, <<AuthorizerData(data.authorizerId)>>}
              ELSE {<<>>}}

\* The same sets as a table.
FindingsForTable == [c \in Calls |-> FindingsFor(c[1], c[2], c[3])]

\* C20: every finding is, apart from its endpoint URL, one the method
\* produces when the integration lookup succeeds, update_report_file was
\* called for it, and its row, if written, carries the finding's endpoint
\* URL; a finding whose integration lookup failed has endpointUrl "".
C20_IntegrationFailureDegradesUrl ==
    \A r \in ResIds : \A i \in 1..Len(result_methods[r]) :
      LET f == result_methods[r][i] IN
        /\ f.endpointUrl \in {"", "/backend"}
        /\ [f EXCEPT !.endpointUrl = "/backend"] \in FindingsForTable[FindingKey(f)]
        /\ updateCalls[FindingKey(f)] = 1
        /\ \A k \in 1..Len(report) :
             RowKey(k) = FindingKey(f) =>
               /\ report[k].endpoint_url = f.endpointUrl
               /\ report[k].authorization_type = f.authorizationType

C20_Witness ==
    \E r \in ResIds : \E i \in 1..Len(result_methods[r]) :
      LET f == result_methods[r][i] IN
        /\ f.endpointUrl = ""
        /\ f.authorizationType \in PROPER_AUTH_TYPES
        /\ \E k \in 1..Len(report) :
             RowKey(k) = FindingKey(f) /\ report[k].endpoint_url = ""

\* C32: when a scan has returned, the report rows of the scanned API and
\* the findings of the returned result (resources_with_auth and
\* resources_without_auth) correspond one to one: every row is the row of a
\* finding of the result, every finding of the result has a row, and there
\* are as many rows as findings.
C32_RowsMatchFindings ==
    ScanDone =>
      LET fs == result[1].resources_with_auth \o result[1].resources_without_auth
          rowsOfApi == {i \in 1..Len(report) : report[i].api = idx}
      IN /\ \A i \in rowsOfApi :
              \E k \in 1..Len(fs) : report[i] = ReportRow(fs[k])
         /\ \A k \in 1..Len(fs) :
              \E i \in rowsOfApi : RowKey(i) = FindingKey(fs[k])
         /\ Cardinality(rowsOfApi) = Len(fs)

\* The keys of the findings of a list.
KeysOf(fs) == {FindingKey(fs[i]) : i \in 1..Len(fs)}

\* C36: in every result added to the result list, no (api, resource, method)
\* is in both resources_with_auth and resources_without_auth or twice in one
\* of them, and every report row of a finding says is_authorized YES when
\* the finding is in resources_with_auth and NO when it is in
\* resources_without_auth.
C36_VerdictsAgree ==
    [][Len(results') = Len(results) + 1 =>
         LET res == results'[Len(results')]
             with == res.resources_with_auth
             without == res.resources_without_auth
         IN /\ KeysOf(with) \cap KeysOf(without) = {}
            /\ Cardinality(KeysOf(with)) = Len(with)
            /\ Cardinality(KeysOf(without)) = Len(without)
            /\ \A k \in 1..Len(report') :
                 /\ RowKey(k)' \in KeysOf(with) => report'[k].is_authorized = "YES"
                 /\ RowKey(k)' \in KeysOf(without) => report'[k].is_authorized = "NO"]_vars

\* A result with a protected and an unprotected finding is in the result
\* list, and the report holds a YES row and a NO row for them.
C36_Witness ==
    \E n \in 1..Len(results) :
      /\ results[n].resources_with_auth # <<>>
      /\ results[n].resources_without_auth # <<>>
      /\ \E i, j \in 1..Len(report) :
           /\ RowKey(i) = FindingKey(results[n].resources_with_auth[1])
           /\ RowKey(j) = FindingKey(results[n].resources_without_auth[1])
           /\ report[i].is_authorized = "YES"
           /\ report[j].is_authorized = "NO"

\* C39: unless the user interrupts the run, analyze_apis_sequentially
\* eventually returns; it returns with one result per API of the list; and
\* a scan that returns its result has handled every discovery, population
\* and resource-analysis task it submitted.
C39_EveryScanTerminates ==
    /\ <>(interrupted \/ pc = "done")
    /\ [](pc = "done" => Len(results) = NumApis)
    /\ [](ScanDone =>
            /\ \A r \in CurRes : disc[r] \in Done /\ ana[r] \in Done
            /\ \A id \in AuthorizerIds : pop[id] \in Done \cup {"none"})

\* The run has ended without an interrupt, after a scan that returned
\* findings and one whose listing failed.
C39_Witness ==
    /\ pc = "done"
    /\ ~interrupted
    /\ Len(results) = NumApis
    /\ \E k \in 1..Len(results) : FindingsOf(results[k]) >= 2
    /\ \E k \in 1..Len(results) : results[k].error # <<>>

\* =====================================================================
\* Direct calls of the pure functions
\* =====================================================================
\* Strings that are inspected character by character (paths, path patterns,
\* method names) are sequences of one-character strings.
MaxPatLen == 4
MaxPathLen == 4

PatAlphabet == {"/", "a", "*", "."}
PathAlphabet == {"/", "a", ".", "*"}

SeqsUpTo(A, n) == UNION {[1..k -> A] : k \in 0..n}

Patterns == SeqsUpTo(PatAlphabet, MaxPatLen)
Paths == SeqsUpTo(PathAlphabet, MaxPathLen)

\* str.upper(), on the letters of the method names used.
UpperChar(c) ==
    CASE c = "g" -> "G" [] c = "e" -> "E" [] c = "t" -> "T"
      [] c = "p" -> "P" [] c = "u" -> "U"
      [] OTHER -> c

Upper(str) == [i \in 1..Len(str) |-> UpperChar(str[i])]

\* 'c in s', s.endswith(suffix), s.startswith(prefix)
Contains(str, c) == \E i \in 1..Len(str) : str[i] = c

EndsWith(str, suffix) ==
    /\ Len(str) >= Len(suffix)
    /\ SubSeq(str, Len(str) - Len(suffix) + 1, Len(str)) = suffix

StartsWith(str, prefix) ==
    /\ Len(str) >= Len(prefix)
    /\ SubSeq(str, 1, Len(prefix)) = prefix

\* dict.get(key, default) on an optional value.
Get(opt, default) == IF opt = <<>> THEN default ELSE opt[1]

\* endpoint_pattern.replace('*', '[^/]+') read as a regular expression: '*'
\* becomes a run of one or more non-'/' characters, '.' is the regex dot,
\* every other character of the alphabet stands for itself.
RegexOf(pattern) ==
    [i \in 1..Len(pattern) |->
       CASE pattern[i] = "*" -> [kind |-> "segment", c |-> ""]
         [] pattern[i] = "." -> [kind |-> "any", c |-> ""]
         [] OTHER -> [kind |-> "literal", c |-> pattern[i]]]

\* re.match(f"^{regex_pattern}$", path)
RECURSIVE ReMatch(_, _)
ReMatch(regex, str) ==
    IF regex = <<>> THEN str = <<>>
    ELSE LET t == Head(regex) IN
         CASE t.kind = "segment" ->
                \E k \in 1..Len(str) :
                  /\ \A i \in 1..k : str[i] # "/"
                  /\ ReMatch(Tail(regex), SubSeq(str, k + 1, Len(str)))
           [] t.kind = "any" ->
                str # <<>> /\ ReMatch(Tail(regex), Tail(str))
           [] OTHER ->
                str # <<>> /\ Head(str) = t.c /\ ReMatch(Tail(regex), Tail(str))

\* The tests on one pattern with the regular expression tried for every
\* pattern that contains '*'.
PatternMatchesSegmentFirst(pattern, path) ==
    \/ path = pattern
    \/ /\ Contains(pattern, "*")
       /\ \/ ReMatch(RegexOf(pattern), path)
          \/ /\ EndsWith(pattern, <<"/", "*">>)
             /\ StartsWith(path, SubSeq(pattern, 1, Len(pattern) - 2) \o <<"/">>)
             /\ path # SubSeq(pattern, 1, Len(pattern) - 2) \o <<"/">>

\* is_endpoint_whitelisted: the tests made on one pattern.
PatternMatches(pattern, path) ==
    \/ path = pattern
    \/ /\ Contains(pattern, "*")
       /\ IF EndsWith(pattern, <<"/", "*">>)
          THEN LET prefix == SubSeq(pattern, 1, Len(pattern) - 2) IN
               /\ StartsWith(path, prefix \o <<"/">>)
               /\ path # prefix \o <<"/">>
          ELSE ReMatch(RegexOf(pattern), path)

\* Whitelist entries as json.load gives them: a string (legacy), an object
\* with optional 'method' and 'path' keys, or anything else.
StrEntry(pattern) == [kind |-> "str", method |-> <<>>, path |-> <<pattern>>]
DictEntry(method, pattern) == [kind |-> "dict", method |-> method, path |-> pattern]
OtherEntry == [kind |-> "other", method |-> <<>>, path |-> <<>>]

\* is_endpoint_whitelisted: one iteration of the loop over the entries.
EntryMatches(entry, method, path) ==
    CASE entry.kind = "str" -> PatternMatches(entry.path[1], path)
      [] entry.kind = "dict" ->
           /\ Upper(Get(entry.method, <<>>)) = Upper(method)
           /\ PatternMatches(Get(entry.path, <<>>), path)
      [] OTHER -> FALSE

RECURSIVE AnyEntryMatches(_, _, _)
AnyEntryMatches(entries, method, path) ==
    IF entries = <<>> THEN FALSE
    ELSE \/ EntryMatches(Head(entries), method, path)
         \/ AnyEntryMatches(Tail(entries), method, path)

is_endpoint_whitelisted(api_name, method, path, whitelist) ==
    IF api_name \notin DOMAIN whitelist THEN FALSE
    ELSE AnyEntryMatches(whitelist[api_name], method, path)

\* re.match compiles the expression first: an unterminated group is an
\* re.error (no pattern of the model holds a ')').
RegexCompiles(pattern) == ~Contains(pattern, "(")

\* is_endpoint_whitelisted: the tests on one pattern reach re.match and it
\* raises.
PatternRaises(pattern, path) ==
    /\ path # pattern
    /\ Contains(pattern, "*")
    /\ ~EndsWith(pattern, <<"/", "*">>)
    /\ ~RegexCompiles(pattern)

EntryRaises(entry, method, path) ==
    CASE entry.kind = "str" -> PatternRaises(entry.path[1], path)
      [] entry.kind = "dict" ->
           /\ Upper(Get(entry.method, <<>>)) = Upper(method)
           /\ PatternRaises(Get(entry.path, <<>>), path)
      [] OTHER -> FALSE

\* The loop over the entries is left by an exception: an entry raises and
\* no entry before it matched.
RECURSIVE AnyEntryRaises(_, _, _)
AnyEntryRaises(entries, method, path) ==
    IF entries = <<>> THEN FALSE
    ELSE IF EntryRaises(Head(entries), method, path) THEN TRUE
    ELSE IF EntryMatches(Head(entries), method, path) THEN FALSE
    ELSE AnyEntryRaises(Tail(entries), method, path)

\* is_endpoint_whitelisted raises instead of returning.
is_endpoint_whitelisted_raises(api_name, method, path, whitelist) ==
    /\ api_name \in DOMAIN whitelist
    /\ AnyEntryRaises(whitelist[api_name], method, path)

\* "+".join(sources), sources not empty.
RECURSIVE Join(_, _)
Join(strs, sep) ==
    IF Len(strs) = 1 THEN strs[1]
    ELSE strs[1] \o sep \o Join(Tail(strs), sep)

get_whitelist_source(api_name, method, path, no_requiere_seguridad, seguridad_en_microservicio, seguridad_por_ip) ==
    LET in_no_requiere ==
          is_endpoint_whitelisted(api_name, method, path, no_requiere_seguridad)
        in_microservicio ==
          is_endpoint_whitelisted(api_name, method, path, seguridad_en_microservicio)
        in_por_ip ==
          is_endpoint_whitelisted(api_name, method, path, seguridad_por_ip)
        sources ==
          (IF in_no_requiere THEN <<"NO_REQUIERE_SEGURIDAD">> ELSE <<>>)
            \o (IF in_microservicio THEN <<"SEGURIDAD_EN_MICROSERVICIO">> ELSE <<>>)
            \o (IF in_por_ip THEN <<"SEGURIDAD_POR_IP">> ELSE <<>>)
    IN IF sources # <<>> THEN Join(sources, "+") ELSE "NO"

\* get_whitelist_source raises when one of its three calls does.
get_whitelist_source_raises(api_name, method, path, no_requiere_seguridad, seguridad_en_microservicio, seguridad_por_ip) ==
    \/ is_endpoint_whitelisted_raises(api_name, method, path, no_requiere_seguridad)
    \/ is_endpoint_whitelisted_raises(api_name, method, path, seguridad_en_microservicio)
    \/ is_endpoint_whitelisted_raises(api_name, method, path, seguridad_por_ip)

\* Method names, as character sequences.
GET == <<"G", "E", "T">>
PUT == <<"P", "U", "T">>
EndpointMethods == {GET, <<"G", "e", "t">>, PUT}
EntryMethods == {<<"g", "e", "t">>, PUT, <<>>}

ApiNames == {"A", "B"}

\* Patterns and paths of the calls that vary the form of the entry.
FormPatterns == {<<"/", "a">>, <<"/", "*">>}
FormPaths == {<<"/", "a">>, <<"/", "a", "/", "a">>}

\* Patterns that hold a character with a meaning in regular expressions,
\* and the paths they are tested against.
GroupPatterns == {<<"(", "*">>, <<"/", "(">>, <<"(", "/", "*">>, <<"*", "(", "a">>}
GroupPaths == FormPaths \cup {<<"(", "*">>, <<"(", "/", "a">>, <<"a", "(", "a">>}

FormEntries ==
    {StrEntry(p) : p \in FormPatterns}
      \cup {DictEntry(<<m>>, <<p>>) : m \in EntryMethods, p \in FormPatterns}
      \cup {DictEntry(<<>>, <<p>>) : p \in FormPatterns}
      \cup {DictEntry(<<m>>, <<>>) : m \in EntryMethods}
      \cup {OtherEntry}

\* The whitelist files of the get_whitelist_source calls.
SourceWhitelists ==
    {<<>>,
     [n \in {"A"} |-> <<StrEntry(<<"/", "a">>)>>],
     [n \in {"A"} |-> <<DictEntry(<<>>, <<<<"/", "a">>>>)>>],
     [n \in {"A"} |-> <<DictEntry(<<GET>>, <<<<"/", "*">>>>)>>],
     [n \in {"B"} |-> <<StrEntry(<<"/", "a">>)>>],
     [n \in {"A"} |-> <<StrEntry(<<"(", "*">>)>>]}

AuthTypes == PROPER_AUTH_TYPES \cup {"NONE", NoAuthType, "custom"}

WhitelistedCall(api_name, method, path, whitelist) ==
    [op |-> "is_endpoint_whitelisted",
     args |-> [api_name |-> api_name, method |-> method, path |-> path,
               whitelist |-> whitelist],
     out |-> <<>>, raised |-> <<>>]

SourceCall(api_name, method, path, w1, w2, w3) ==
    [op |-> "get_whitelist_source",
     args |-> [api_name |-> api_name, method |-> method, path |-> path,
               no_requiere_seguridad |-> w1,
               seguridad_en_microservicio |-> w2,
               seguridad_por_ip |-> w3],
     out |-> <<>>, raised |-> <<>>]

ClassifyCall(auth_type, api_key) ==
    [op |-> "classify",
     args |-> [finding |-> Finding(1, 1, "GET", MethodRecord(auth_type, "", api_key),
                                   <<>>, "")],
     out |-> <<>>, raised |-> <<>>]

\* ------------------------------------------------------ the list filters
MaxApiList == 3
MaxMethods == 3

\* EXCLUDED_API_SUFFIXES of apiguardian.py and of api_filter.py.
DEV == <<"-", "D", "E", "V">>
CI == <<"-", "C", "I">>
EXCLUDED_API_SUFFIXES == {DEV, CI}

\* The list comprehension of both API filters: the APIs whose name ends
\* with none of the suffixes.
NameExcluded(name, suffixes) == \E suffix \in suffixes : EndsWith(name, suffix)

\* Mutation of KeepApis: a suffix anywhere in the name excludes the API.
KeepApisWithout(apis, suffixes) ==
    SelectSeq(apis, LAMBDA api :
        ~\E suffix \in suffixes :
           \E i \in 1..(Len(api.name) - Len(suffix) + 1) :
             SubSeq(api.name, i, i + Len(suffix) - 1) = suffix)

KeepApis(apis, suffixes) ==
    SelectSeq(apis, LAMBDA api : ~NameExcluded(api.name, suffixes))

\* apiguardian.filter_apis_by_suffix
filter_apis_by_suffix(apis) == KeepApis(apis, EXCLUDED_API_SUFFIXES)

\* 'x or default' on an optional set: None and the empty set are both falsy.
OrDefault(opt, default) ==
    IF opt = <<>> \/ opt[1] = {} THEN default ELSE opt[1]

\* api_filter.filter_apis
filter_apis(apis, excluded_suffixes) ==
    KeepApis(apis, OrDefault(excluded_suffixes, EXCLUDED_API_SUFFIXES))

\* api_filter.get_excluded_api_count
get_excluded_api_count(apis, excluded_suffixes) ==
    Len(apis) - Len(filter_apis(apis, excluded_suffixes))

\* api_filter.filter_methods, on a method map given as its items in
\* iteration order.
filter_methods(method_map, excluded_methods) ==
    SelectSeq(method_map, LAMBDA item :
        item.method \notin OrDefault(excluded_methods, EXCLUDED_HTTP_METHODS))

\* analyze_resource_methods: the filtered method map and methods_filtered.
FilteredTask(keys) ==
    [methods |-> filter_options_methods(keys),
     methods_filtered |-> Len(keys) - Len(filter_options_methods(keys))]

\* ---------------------------------------------------- clean_endpoint_url
MaxUrlLen == 7
UrlAlphabet == {"h", "$", ":", "/"}
Urls == SeqsUpTo(UrlAlphabet, MaxUrlLen)

\* Index of the first occurrence of sub in str, 0 when there is none.
Find(str, sub) ==
    LET at == {i \in 1..(Len(str) - Len(sub) + 1) :
                 SubSeq(str, i, i + Len(sub) - 1) = sub}
    IN
    IF at = {} THEN 0 ELSE CHOOSE i \in at : \A j \in at : i <= j

\* Mutation of clean_endpoint_url: the URI is reported as it is.
clean_nothing(url) == url

clean_endpoint_url(url) ==
    IF url = <<>> THEN <<>>
    ELSE IF Head(url) = "/" THEN url
    ELSE LET i == Find(url, <<":", "/", "/">>) IN
         IF i = 0 THEN <<>>
         ELSE LET after_scheme == SubSeq(url, i + 3, Len(url))
                  j == Find(after_scheme, <<"/">>)
              IN IF j = 0 THEN <<>>
                 ELSE <<"/">> \o SubSeq(after_scheme, j + 1, Len(after_scheme))

\* ---------------------------------------------------- specificAuthType
\* str.lower(), on the letters of the authorizer names used.
LowerChar(c) ==
    CASE c = "A" -> "a" [] c = "D" -> "d" [] c = "M" -> "m" [] c = "I" -> "i"
      [] c = "N" -> "n" [] c = "C" -> "c" [] c = "U" -> "u" [] c = "S" -> "s"
      [] c = "T" -> "t" [] c = "O" -> "o" [] c = "E" -> "e" [] c = "R" -> "r"
      [] OTHER -> c

Lower(str) == [i \in 1..Len(str) |-> LowerChar(str[i])]

\* 'sub in str'
HasSubstring(str, sub) == Find(str, sub) # 0

\* Mutation of specific_auth_type: 'customer' is looked for first.
specific_auth_type_customer_first(auth_type, authorizer_name) ==
    IF authorizer_name = <<>> THEN auth_type
    ELSE IF HasSubstring(Lower(authorizer_name),
                         <<"c", "u", "s", "t", "o", "m", "e", "r">>) THEN "CUSTOMER"
    ELSE IF HasSubstring(Lower(authorizer_name), <<"a", "d", "m", "i", "n">>)
         THEN "ADMIN"
    ELSE auth_type

\* analyze_resource_methods: specific_auth_type from the authorizer's name
\* ('' when there are no authorizer details).
specific_auth_type(auth_type, authorizer_name) ==
    IF authorizer_name = <<>> THEN auth_type
    ELSE IF HasSubstring(Lower(authorizer_name), <<"a", "d", "m", "i", "n">>)
         THEN "ADMIN"
    ELSE IF HasSubstring(Lower(authorizer_name),
                         <<"c", "u", "s", "t", "o", "m", "e", "r">>) THEN "CUSTOMER"
    ELSE auth_type

\* ------------------------------------------------------- load_whitelist
\* A JSON value as load_whitelist sees it: a dict (with its mapping), a
\* list or null.
JsonDict(v) == [type |-> "dict", v |-> v]
JsonList == [type |-> "list", v |-> <<>>]
JsonNull == [type |-> "null", v |-> <<>>]

\* The category variable as initialised: {}
EmptyPolicy == JsonDict(<<>>)

\* A policy file: absent, unreadable, not JSON, or a JSON document that is
\* a list or an object with or without the key 'whitelist'.
FileMissing == [kind |-> "missing", key |-> <<>>]
FileUnreadable == [kind |-> "unreadable", key |-> <<>>]
FileNotJson == [kind |-> "not_json", key |-> <<>>]
FileList == [kind |-> "list", key |-> <<>>]
FileObject(key) == [kind |-> "object", key |-> key]

\* One try block of load_whitelist: any exception leaves the category as
\* initialised; otherwise it is data.get('whitelist', {}).
LoadCategory(file) ==
    IF file.kind = "object" THEN Get(file.key, EmptyPolicy) ELSE EmptyPolicy

load_whitelist(file1, file2, file3) ==
    <<LoadCategory(file1), LoadCategory(file2), LoadCategory(file3)>>

\* ---------------------------------------------------------- the summaries
MaxResults == 3

\* Mutation of ResultHasError: no result counts as failed.
ResultNeverHasError(r) == FALSE

\* r.get('error') is truthy.
ResultHasError(r) == r.error # <<>> /\ r.error[1] # ""

\* main: the execution summary and the final count of unprotected endpoints.
execution_summary(result_list) ==
    LET n == Len(result_list) IN
    [total_apis |-> n,
     successful |-> SumTo([i \in 1..n |-> IF ~ResultHasError(result_list[i])
                                          THEN 1 ELSE 0], n),
     failed |-> SumTo([i \in 1..n |-> IF ResultHasError(result_list[i])
                                      THEN 1 ELSE 0], n),
     total_unprotected |->
        SumTo([i \in 1..n |-> Len(result_list[i].resources_without_auth)], n)]

\* print_security_report: the totals of the box message.
security_totals(result_list) ==
    LET n == Len(result_list) IN
    [total_apis |-> n,
     total_unprotected |->
        SumTo([i \in 1..n |-> IF ~ResultHasError(result_list[i])
                              THEN Len(result_list[i].resources_without_auth)
                              ELSE 0], n),
     total_protected |->
        SumTo([i \in 1..n |-> IF ~ResultHasError(result_list[i])
                              THEN Len(result_list[i].resources_with_auth)
                              ELSE 0], n),
     total_errors |-> SumTo([i \in 1..n |-> IF ResultHasError(result_list[i])
                                            THEN 1 ELSE 0], n)]

\* ------------------------------------------- inputs of the other calls
\* API names: no suffix, the two excluded suffixes, a lower-case suffix, a
\* suffix in the middle, a name that is the suffix.
ApiNameSeqs ==
    {<<"p">>, <<"p">> \o DEV, <<"p">> \o CI, <<"p", "-", "d", "e", "v">>,
     DEV \o <<"p">>, CI}

ApiRecords == {[id |-> "x", name |-> n] : n \in ApiNameSeqs}
ApiLists == SeqsUpTo(ApiRecords, MaxApiList)

\* The excluded_suffixes argument: None or a set.
SuffixArgs ==
    {<<>>} \cup {<<S>> : S \in SUBSET {DEV, CI, <<"-", "d", "e", "v">>}}

\* Method maps: distinct keys in any order.
MethodKeys == {"OPTIONS", "GET", "POST", "options"}
Distinct(s) == \A i, j \in 1..Len(s) : i # j => s[i] # s[j]
KeyLists == {s \in SeqsUpTo(MethodKeys, MaxMethods) : Distinct(s)}
MethodMaps ==
    UNION {{[i \in 1..Len(s) |-> [method |-> s[i], config |-> c[i]]] :
              c \in [1..Len(s) -> {"c1", "c2"}]} : s \in KeyLists}

\* Authorizer names: '' (no details) and one or two of these pieces.
NamePieces ==
    {<<>>, <<"x">>, <<"A", "d", "m">>, <<"a", "d", "m", "i", "n">>,
     <<"A", "D", "M", "I", "N">>, <<"A", "d", "m", "i", "n">>,
     <<"c", "u", "s", "t", "o", "m", "e", "r">>,
     <<"C", "u", "s", "t", "O", "M", "E", "R">>}
AuthorizerNames == {a \o b : a, b \in NamePieces}

\* Policy files.
PolicyFiles ==
    {FileMissing, FileUnreadable, FileNotJson, FileList, FileObject(<<>>),
     FileObject(<<JsonNull>>), FileObject(<<JsonList>>)}
      \cup {FileObject(<<JsonDict(w)>>) : w \in SourceWhitelists}

\* Results as analyze_apis_sequentially collects them.
SampleFinding(m, type) == Finding(1, 1, m, MethodRecord(type, "", FALSE), <<>>, "")
SampleResults ==
    {FailedResult(1), EmptyResult(1), ExceptionResult(1, "boom"),
     ScanResult(1, 1, <<>>, <<SampleFinding("GET", "AWS_IAM")>>, 0),
     ScanResult(1, 2, <<SampleFinding("GET", "NONE")>>,
                <<SampleFinding("POST", "CUSTOM"), SampleFinding("PUT", "AWS_IAM")>>, 1)}
ResultLists == SeqsUpTo(SampleResults, MaxResults) \ {<<>>}

PureCall(op, args) == [op |-> op, args |-> args, out |-> <<>>, raised |-> <<>>]

\* A pure function is about to be called on arguments drawn from the sets
\* above; the scan is not running.
CallInit ==
    /\ ScanInit
    /\ AnalyzerIdle
    /\ \/ \E p \in Patterns, q \in Paths :
            call = WhitelistedCall("A", GET, q, [n \in {"A"} |-> <<StrEntry(p)>>])
       \/ \E e \in FormEntries, m \in EndpointMethods, q \in FormPaths,
             n \in ApiNames, first \in {<<>>, <<OtherEntry>>} :
            call = WhitelistedCall("A", m, q, [k \in {n} |-> first \o <<e>>])
       \/ \E p \in GroupPatterns, q \in GroupPaths, m \in EntryMethods,
             first \in {<<>>, <<StrEntry(<<"/", "a">>)>>} :
            \/ call = WhitelistedCall("A", GET, q,
                                      [n \in {"A"} |-> first \o <<StrEntry(p)>>])
            \/ call = WhitelistedCall("A", GET, q,
                                      [n \in {"A"} |-> first \o <<DictEntry(<<m>>, <<p>>)>>])
       \/ \E w1, w2, w3 \in SourceWhitelists, n \in ApiNames, q \in FormPaths :
            call = SourceCall(n, GET, q, w1, w2, w3)
       \/ \E t \in AuthTypes, k \in BOOLEAN : call = ClassifyCall(t, k)
       \/ \E apis \in ApiLists :
            call = PureCall("filter_apis_by_suffix", [apis |-> apis])
       \/ \E apis \in ApiLists, S \in SuffixArgs :
            call = PureCall("filter_apis", [apis |-> apis, excluded_suffixes |-> S])
       \/ \E keys \in KeyLists :
            call = PureCall("filter_options_methods", [methods |-> keys])
       \/ \E m \in MethodMaps :
            call = PureCall("filter_methods", [methods |-> m])
       \/ \E url \in Urls : call = PureCall("clean_endpoint_url", [url |-> url])
       \/ \E t \in AuthTypes, n \in AuthorizerNames :
            call = PureCall("specific_auth_type",
                            [auth_type |-> t, authorizer_name |-> n])
       \/ \E f1, f2, f3 \in PolicyFiles :
            call = PureCall("load_whitelist",
                            [file1 |-> f1, file2 |-> f2, file3 |-> f3])
       \/ \E rs \in ResultLists :
            call = PureCall("summary", [results |-> rs])

CallIsEndpointWhitelisted ==
    /\ call.op = "is_endpoint_whitelisted"
    /\ call.out = <<>>
    /\ call.raised = <<>>
    /\ IF is_endpoint_whitelisted_raises(call.args.api_name, call.args.method,
                                         call.args.path, call.args.whitelist)
       THEN call' = [call EXCEPT !.raised = <<"re.error">>]
       ELSE call' = [call EXCEPT !.out =
                       <<is_endpoint_whitelisted(call.args.api_name, call.args.method,
                                                 call.args.path, call.args.whitelist)>>]
    /\ UNCHANGED <<scanState, analyzerVars>>

CallGetWhitelistSource ==
    /\ call.op = "get_whitelist_source"
    /\ call.out = <<>>
    /\ call.raised = <<>>
    /\ IF get_whitelist_source_raises(call.args.api_name, call.args.method,
                                      call.args.path,
                                      call.args.no_requiere_seguridad,
                                      call.args.seguridad_en_microservicio,
                                      call.args.seguridad_por_ip)
       THEN call' = [call EXCEPT !.raised = <<"re.error">>]
       ELSE call' = [call EXCEPT !.out =
                       <<get_whitelist_source(call.args.api_name, call.args.method,
                                              call.args.path,
                                              call.args.no_requiere_seguridad,
                                              call.args.seguridad_en_microservicio,
                                              call.args.seguridad_por_ip)>>]
    /\ UNCHANGED <<scanState, analyzerVars>>

\* check_api_security's split of a task's findings and update_report_file's
\* row, for one finding.
CallClassify ==
    /\ call.op = "classify"
    /\ call.out = <<>>
    /\ LET f == call.args.finding IN
       call' = [call EXCEPT !.out =
                  <<[resources_with_auth |-> SelectByAuth(<<f>>, TRUE),
                     resources_without_auth |-> SelectByAuth(<<f>>, FALSE),
                     row |-> ReportRow(f)]>>]
    /\ UNCHANGED <<scanState, analyzerVars>>

CallFilterApisBySuffix ==
    /\ call.op = "filter_apis_by_suffix"
    /\ call.out = <<>>
    /\ call' = [call EXCEPT !.out = <<filter_apis_by_suffix(call.args.apis)>>]
    /\ UNCHANGED <<scanState, analyzerVars>>

CallFilterApis ==
    /\ call.op = "filter_apis"
    /\ call.out = <<>>
    /\ call' = [call EXCEPT !.out =
                  <<[filtered |-> filter_apis(call.args.apis,
                                              call.args.excluded_suffixes),
                     excluded_count |->
                        get_excluded_api_count(call.args.apis,
                                               call.args.excluded_suffixes)]>>]
    /\ UNCHANGED <<scanState, analyzerVars>>

CallFilterOptionsMethods ==
    /\ call.op = "filter_options_methods"
    /\ call.out = <<>>
    /\ call' = [call EXCEPT !.out = <<FilteredTask(call.args.methods)>>]
    /\ UNCHANGED <<scanState, analyzerVars>>

CallFilterMethods ==
    /\ call.op = "filter_methods"
    /\ call.out = <<>>
    /\ call' = [call EXCEPT !.out = <<filter_methods(call.args.methods, <<>>)>>]
    /\ UNCHANGED <<scanState, analyzerVars>>

CallCleanEndpointUrl ==
    /\ call.op = "clean_endpoint_url"
    /\ call.out = <<>>
    /\ call' = [call EXCEPT !.out = <<clean_endpoint_url(call.args.url)>>]
    /\ UNCHANGED <<scanState, analyzerVars>>

CallSpecificAuthType ==
    /\ call.op = "specific_auth_type"
    /\ call.out = <<>>
    /\ call' = [call EXCEPT !.out =
                  <<specific_auth_type(call.args.auth_type,
                                       call.args.authorizer_name)>>]
    /\ UNCHANGED <<scanState, analyzerVars>>

CallLoadWhitelist ==
    /\ call.op = "load_whitelist"
    /\ call.out = <<>>
    /\ call' = [call EXCEPT !.out =
                  <<load_whitelist(call.args.file1, call.args.file2,
                                   call.args.file3)>>]
    /\ UNCHANGED <<scanState, analyzerVars>>

CallSummary ==
    /\ call.op = "summary"
    /\ call.out = <<>>
    /\ call' = [call EXCEPT !.out =
                  <<[execution |-> execution_summary(call.args.results),
                     security |-> security_totals(call.args.results)]>>]
    /\ UNCHANGED <<scanState, analyzerVars>>

CallNext ==
    \/ CallIsEndpointWhitelisted
    \/ CallGetWhitelistSource
    \/ CallClassify
    \/ CallFilterApisBySuffix
    \/ CallFilterApis
    \/ CallFilterOptionsMethods
    \/ CallFilterMethods
    \/ CallCleanEndpointUrl
    \/ CallSpecificAuthType
    \/ CallLoadWhitelist
    \/ CallSummary

CallSpec == CallInit /\ [][CallNext]_vars

\* A direct call has returned.
Returned(op) == call.op = op /\ call.out # <<>>

\* C12: a finding goes to resources_with_auth, and its row says is_authorized
\* YES, iff its authorizationType is CUSTOM, AWS_IAM or COGNITO_USER_POOLS,
\* whatever apiKeyRequired is; otherwise it goes to resources_without_auth
\* with is_authorized NO; the row's api_key column follows apiKeyRequired.
C12_ProtectedIffProperType ==
    Returned("classify") =>
      LET f == call.args.finding
          proper == f.authorizationType \in {"CUSTOM", "AWS_IAM", "COGNITO_USER_POOLS"}
          res == call.out[1]
      IN /\ res.resources_with_auth = IF proper THEN <<f>> ELSE <<>>
         /\ res.resources_without_auth = IF proper THEN <<>> ELSE <<f>>
         /\ res.row.is_authorized = IF proper THEN "YES" ELSE "NO"
         /\ res.row.api_key = IF f.apiKeyRequired THEN "YES" ELSE "NO"

C12_Witness ==
    /\ Returned("classify")
    /\ call.args.finding.authorizationType \in {"NONE", NoAuthType}
    /\ call.args.finding.apiKeyRequired
    /\ call.out[1].resources_without_auth = <<call.args.finding>>
    /\ call.out[1].row.api_key = "YES"

\* The whitelist rules as the specification words them.
\* Rule 1: a candidate is skipped iff it declares a method and that method
\* differs from the endpoint's, ignoring case.
DeclaresOtherMethod(entry, method) ==
    entry.method # <<>> /\ Upper(entry.method[1]) # Upper(method)

\* Rule 3: the path is the prefix, a '/', and at least one more character.
UnderPrefix(pattern, path) ==
    LET prefix == SubSeq(pattern, 1, Len(pattern) - 2) IN
    /\ Len(path) > Len(prefix) + 1
    /\ SubSeq(path, 1, Len(prefix) + 1) = prefix \o <<"/">>

\* Rule 4: the path is the pattern with each '*' replaced by one non-empty
\* run of characters other than '/'.
RECURSIVE SegmentMatch(_, _)
SegmentMatch(pattern, path) ==
    IF pattern = <<>> THEN path = <<>>
    ELSE IF Head(pattern) = "*"
         THEN \E k \in 1..Len(path) :
                /\ \A i \in 1..k : path[i] # "/"
                /\ SegmentMatch(Tail(pattern), SubSeq(path, k + 1, Len(path)))
         ELSE /\ path # <<>>
              /\ Head(path) = Head(pattern)
              /\ SegmentMatch(Tail(pattern), Tail(path))

\* Rules 2 to 5 for one pattern.
RuleMatch(pattern, path) ==
    \/ path = pattern
    \/ IF EndsWith(pattern, <<"/", "*">>) THEN UnderPrefix(pattern, path)
       ELSE Contains(pattern, "*") /\ SegmentMatch(pattern, path)

\* The endpoint matches in a category (rules 1 to 5 over the entries listed
\* for the API name).
InCategory(api_name, method, path, whitelist) ==
    /\ api_name \in DOMAIN whitelist
    /\ \E i \in 1..Len(whitelist[api_name]) :
         LET e == whitelist[api_name][i] IN
         /\ e.kind \in {"str", "dict"}
         /\ ~DeclaresOtherMethod(e, method)
         /\ RuleMatch(Get(e.path, <<>>), path)

\* C13: for every string or object entry, the call's verdict on a whitelist
\* of entries is that some entry which does not declare another method
\* passes the path tests: an entry is skipped only for declaring a method
\* that differs from the endpoint's ignoring case.
C13_SkippedOnlyForOtherMethod ==
    Returned("is_endpoint_whitelisted") =>
      LET a == call.args IN
      call.out[1] =
        (/\ a.api_name \in DOMAIN a.whitelist
         /\ \E i \in 1..Len(a.whitelist[a.api_name]) :
              LET e == a.whitelist[a.api_name][i] IN
              /\ e.kind \in {"str", "dict"}
              /\ ~DeclaresOtherMethod(e, a.method)
              /\ PatternMatches(Get(e.path, <<>>), a.path))

\* C14: for a whitelist holding one entry that declares no other method and
\* whose pattern ends in '/*', the endpoint is whitelisted iff its path
\* starts with the prefix and '/' and is longer than that.
C14_SubpathPattern ==
    Returned("is_endpoint_whitelisted") =>
      LET a == call.args IN
      (/\ a.api_name \in DOMAIN a.whitelist
       /\ Len(a.whitelist[a.api_name]) = 1
       /\ a.whitelist[a.api_name][1].kind \in {"str", "dict"}
       /\ ~DeclaresOtherMethod(a.whitelist[a.api_name][1], a.method)
       /\ EndsWith(Get(a.whitelist[a.api_name][1].path, <<>>), <<"/", "*">>))
        => call.out[1] = UnderPrefix(Get(a.whitelist[a.api_name][1].path, <<>>),
                                     a.path)

\* C15: for a whitelist holding one legacy (string) entry whose pattern
\* contains '*' and does not end in '/*', the endpoint is whitelisted iff
\* its whole path is the pattern with each '*' replaced by one non-empty
\* '/'-free segment.
C15_SegmentWildcard ==
    Returned("is_endpoint_whitelisted") =>
      LET a == call.args IN
      (/\ a.api_name \in DOMAIN a.whitelist
       /\ Len(a.whitelist[a.api_name]) = 1
       /\ a.whitelist[a.api_name][1].kind = "str"
       /\ Contains(a.whitelist[a.api_name][1].path[1], "*")
       /\ ~EndsWith(a.whitelist[a.api_name][1].path[1], <<"/", "*">>))
        => call.out[1] = SegmentMatch(a.whitelist[a.api_name][1].path[1], a.path)

\* C37: when analyze_apis_sequentially has returned, every API whose scan
\* raised has a result that the execution summary counts as failed: the
\* result's error is truthy, and the summary's count of successful APIs
\* leaves the raised scans out.
C37_RaisedScanCountsAsFailed ==
    pc = "done" =>
      LET raisedApis == {k \in 1..Len(results) : listing[k] = "raised"} IN
      /\ \A k \in raisedApis : ResultHasError(results[k])
      /\ execution_summary(results).failed >= Cardinality(raisedApis)
      /\ execution_summary(results).successful
           <= Len(results) - Cardinality(raisedApis)

\* C31: for a legacy (string) entry whose pattern ends in '/*' and contains
\* an earlier '*', only the prefix test is made and the earlier '*' stands
\* for itself: the endpoint is whitelisted iff its path is the pattern
\* itself or starts with the pattern minus its last two characters and '/'
\* and is longer than that; a path that replaces the earlier '*' by another
\* segment is not whitelisted.
EarlierStar(pattern) ==
    /\ EndsWith(pattern, <<"/", "*">>)
    /\ Contains(SubSeq(pattern, 1, Len(pattern) - 2), "*")

C31_PrefixRuleFirst ==
    Returned("is_endpoint_whitelisted") =>
      LET a == call.args IN
      (/\ a.api_name \in DOMAIN a.whitelist
       /\ Len(a.whitelist[a.api_name]) = 1
       /\ a.whitelist[a.api_name][1].kind = "str"
       /\ EarlierStar(a.whitelist[a.api_name][1].path[1]))
        => LET pattern == a.whitelist[a.api_name][1].path[1] IN
           /\ call.out[1] = (a.path = pattern \/ UnderPrefix(pattern, a.path))
           /\ (SegmentMatch(pattern, a.path) /\ ~UnderPrefix(pattern, a.path)
                 /\ a.path # pattern)
                => call.out[1] = FALSE

\* The pattern '*/*' is tested against the path 'a/a', which it would
\* match segment by segment, and the path is not whitelisted.
C31_Witness ==
    /\ Returned("is_endpoint_whitelisted")
    /\ call.args.whitelist = [n \in {"A"} |-> <<StrEntry(<<"*", "/", "*">>)>>]
    /\ call.args.path = <<"a", "/", "a">>
    /\ call.out[1] = FALSE

\* C34: for a whitelist holding one string or object entry whose pattern
\* contains '*' and does not end in '/*', a whitelisted path has the
\* pattern's characters other than '*' at their places: it is the pattern
\* with each '*' replaced by one non-empty '/'-free segment.
C34_LiteralCharacters ==
    Returned("is_endpoint_whitelisted") =>
      LET a == call.args IN
      (/\ a.api_name \in DOMAIN a.whitelist
       /\ Len(a.whitelist[a.api_name]) = 1
       /\ a.whitelist[a.api_name][1].kind \in {"str", "dict"}
       /\ Contains(Get(a.whitelist[a.api_name][1].path, <<>>), "*")
       /\ ~EndsWith(Get(a.whitelist[a.api_name][1].path, <<>>), <<"/", "*">>)
       /\ call.out[1] = TRUE)
        => SegmentMatch(Get(a.whitelist[a.api_name][1].path, <<>>), a.path)

\* C35: a call of is_endpoint_whitelisted or get_whitelist_source on a
\* whitelist of string, object and other entries never ends by an exception.
C35_ClassificationNeverRaises ==
    call.op \in {"is_endpoint_whitelisted", "get_whitelist_source"}
      => call.raised = <<>>

\* C16: get_whitelist_source returns the names of exactly the categories in
\* which the endpoint matches under the entries of its API name, joined by
\* '+' in the order NO_REQUIERE_SEGURIDAD, SEGURIDAD_EN_MICROSERVICIO,
\* SEGURIDAD_POR_IP, and "NO" iff there is none.
C16_SourceIsMatchingCategories ==
    Returned("get_whitelist_source") =>
      LET a == call.args
          in1 == InCategory(a.api_name, a.method, a.path, a.no_requiere_seguridad)
          in2 == InCategory(a.api_name, a.method, a.path, a.seguridad_en_microservicio)
          in3 == InCategory(a.api_name, a.method, a.path, a.seguridad_por_ip)
      IN call.out[1] =
           CASE in1 /\ in2 /\ in3 ->
                  "NO_REQUIERE_SEGURIDAD+SEGURIDAD_EN_MICROSERVICIO+SEGURIDAD_POR_IP"
             [] in1 /\ in2 /\ ~in3 -> "NO_REQUIERE_SEGURIDAD+SEGURIDAD_EN_MICROSERVICIO"
             [] in1 /\ ~in2 /\ in3 -> "NO_REQUIERE_SEGURIDAD+SEGURIDAD_POR_IP"
             [] ~in1 /\ in2 /\ in3 -> "SEGURIDAD_EN_MICROSERVICIO+SEGURIDAD_POR_IP"
             [] in1 /\ ~in2 /\ ~in3 -> "NO_REQUIERE_SEGURIDAD"
             [] ~in1 /\ in2 /\ ~in3 -> "SEGURIDAD_EN_MICROSERVICIO"
             [] ~in1 /\ ~in2 /\ in3 -> "SEGURIDAD_POR_IP"
             [] OTHER -> "NO"

\* =====================================================================
\* Discovery and the order of the rows
\* =====================================================================
\* Authorizer ids of the non-OPTIONS methods of resource r of API a whose
\* authorization type is CUSTOM or COGNITO_USER_POOLS.
ClaimsBearingOf(a, r) ==
    {MethodData(a, r, resourceMethods(a, r)[i]).authorizerId :
        i \in {j \in 1..Len(resourceMethods(a, r)) :
                 LET m == resourceMethods(a, r)[j] IN
                 /\ m # "OPTIONS"
                 /\ MethodData(a, r, m).authorizerId # ""
                 /\ MethodData(a, r, m).authorizationType
                      \in {"CUSTOM", "COGNITO_USER_POOLS"}}}

\* The same sets as a table.
ClaimsBearingTable == [a \in Apis, r \in ResIds |-> ClaimsBearingOf(a, r)]
ClaimsBearingIds(a, r) == ClaimsBearingTable[a, r]

\* build_authorizer_cache has passed the discovery barrier.
Discovered == pc \in {"population", "analysis"}

\* A population task has called get_authorizer_details.
Fetched(status) == status \in {"finished", "raised"} \cup Done

NeedsId(f) == f.authorizerId # "" /\ f.authorizationType \in ClaimsAuthTypes

MethodPos(a, r, m) ==
    CHOOSE i \in 1..Len(resourceMethods(a, r)) : resourceMethods(a, r)[i] = m

\* s is a suffix of t.
IsSuffix(s, t) ==
    Len(s) <= Len(t) /\ s = SubSeq(t, Len(t) - Len(s) + 1, Len(t))

\* C30: every step that changes the report appends one row, and that row's
\* method comes later in its resource's method map than the method of every
\* earlier row of the same resource; a running task's remaining methods are
\* a suffix of its resource's filtered method map, the methods before it
\* being done.
C30_MethodsInOrder ==
    [][/\ report' # report =>
            /\ Len(report') = Len(report) + 1
            /\ SubSeq(report', 1, Len(report)) = report
            /\ LET new == report'[Len(report')] IN
               \A k \in 1..Len(report) :
                 (report[k].api = new.api /\ report[k].resource_id = new.resource_id)
                   => MethodPos(new.api, new.resource_id, report[k].method)
                        < MethodPos(new.api, new.resource_id, new.method)
       /\ \A r \in ResIds :
            (ana'[r] = "running" /\ methods'[r] # <<>>) =>
              /\ IsSuffix(todo'[r], filter_options_methods(resourceMethods(idx', r)))
              /\ Len(result_methods'[r]) + lookupFailed'[r] + Len(todo'[r])
                   = Len(filter_options_methods(resourceMethods(idx', r)))]_vars

\* Rows of two resources interleave: GET of resource 2, GET of resource 1,
\* POST of resource 2.
C30_Witness ==
    /\ Len(report) = 3
    /\ RowKey(1) = <<1, 2, "GET">>
    /\ RowKey(2) = <<1, 1, "GET">>
    /\ RowKey(3) = <<1, 2, "POST">>

\* =====================================================================
\* The filters, the URL cleaning, the derived type, the policy files and
\* the summaries
\* =====================================================================
\* The name ends with '-DEV' or '-CI'.
EndsWithDevOrCi(name) ==
    \/ (Len(name) >= 4 /\ SubSeq(name, Len(name) - 3, Len(name)) = <<"-", "D", "E", "V">>)
    \/ (Len(name) >= 3 /\ SubSeq(name, Len(name) - 2, Len(name)) = <<"-", "C", "I">>)

\* out is the list of the members of apis that are not excluded, in their
\* relative order and unchanged: position by position, the k-th member of
\* out is the k-th non-excluded member of apis.
IsOrderedSelection(out, apis, Excluded(_)) ==
    LET kept == {i \in 1..Len(apis) : ~Excluded(apis[i])}
        rank(i) == Cardinality({j \in kept : j <= i})
    IN /\ Len(out) = Cardinality(kept)
       /\ \A i \in kept : out[rank(i)] = apis[i]

ExcludedApi(api) == EndsWithDevOrCi(api.name)

\* C21: filter_apis_by_suffix, and filter_apis without a suffix argument,
\* return exactly the APIs whose name does not end with '-DEV' or '-CI', in
\* their relative order and unchanged; filtering the result again returns
\* it.
C21_SuffixFilter ==
    /\ Returned("filter_apis_by_suffix") =>
         /\ IsOrderedSelection(call.out[1], call.args.apis, ExcludedApi)
         /\ filter_apis_by_suffix(call.out[1]) = call.out[1]
    /\ (Returned("filter_apis") /\ call.args.excluded_suffixes = <<>>) =>
         /\ IsOrderedSelection(call.out[1].filtered, call.args.apis, ExcludedApi)
         /\ filter_apis(call.out[1].filtered, <<>>) = call.out[1].filtered

C21_Witness ==
    /\ Returned("filter_apis_by_suffix")
    /\ Len(call.args.apis) = 3
    /\ call.args.apis[1].name = <<"p", "-", "d", "e", "v">>
    /\ call.args.apis[2].name = <<"p", "-", "D", "E", "V">>
    /\ call.args.apis[3].name = <<"-", "D", "E", "V", "p">>
    /\ call.out[1] = <<call.args.apis[1], call.args.apis[3]>>

ExcludedKey(key) == key = "OPTIONS"
ExcludedItem(item) == item.method = "OPTIONS"

\* C22: excluding the preflight method removes the key 'OPTIONS' and
\* nothing else, keeps the other methods in order with their configuration,
\* is idempotent, and methods_filtered is the number of keys removed.
C22_PreflightFilter ==
    /\ Returned("filter_options_methods") =>
         /\ IsOrderedSelection(call.out[1].methods, call.args.methods, ExcludedKey)
         /\ filter_options_methods(call.out[1].methods) = call.out[1].methods
         /\ call.out[1].methods_filtered =
              Cardinality({i \in 1..Len(call.args.methods) :
                             call.args.methods[i] = "OPTIONS"})
    /\ Returned("filter_methods") =>
         /\ IsOrderedSelection(call.out[1], call.args.methods, ExcludedItem)
         /\ filter_methods(call.out[1], <<>>) = call.out[1]

C22_Witness ==
    /\ Returned("filter_options_methods")
    /\ call.args.methods = <<"options", "OPTIONS", "GET">>
    /\ call.out[1].methods = <<"options", "GET">>
    /\ call.out[1].methods_filtered = 1

\* C23: '' gives ''; a URI that starts with '/' is returned unchanged; a URI
\* with a scheme (its first '://') gives everything from the first '/'
\* after the '://', and '' when there is no such '/'.
C23_CleanEndpointUrl ==
    Returned("clean_endpoint_url") =>
      LET url == call.args.url
          out == call.out[1]
          SchemeEnd(i) ==
            /\ i + 2 <= Len(url)
            /\ url[i] = ":" /\ url[i + 1] = "/" /\ url[i + 2] = "/"
            /\ \A k \in 1..(i - 1) :
                 ~(url[k] = ":" /\ url[k + 1] = "/" /\ url[k + 2] = "/")
      IN /\ url = <<>> => out = <<>>
         /\ (url # <<>> /\ url[1] = "/") => out = url
         /\ (url # <<>> /\ url[1] # "/") =>
              \A i \in 1..Len(url) :
                SchemeEnd(i) =>
                  /\ \A j \in (i + 3)..Len(url) :
                       (url[j] = "/" /\ \A k \in (i + 3)..(j - 1) : url[k] # "/")
                         => out = SubSeq(url, j, Len(url))
                  /\ (\A j \in (i + 3)..Len(url) : url[j] # "/") => out = <<>>

\* 'h://$/h/h' in the model's alphabet: scheme, placeholder host, path.
C23_Witness ==
    /\ Returned("clean_endpoint_url")
    /\ call.args.url = <<"h", ":", "/", "/", "$", "/", "h">>
    /\ call.out[1] = <<"/", "h">>

\* The name contains the word, whatever the case of its letters (lower and
\* upper give the word in lower and upper case).
ContainsWord(name, lower, upper) ==
    \E i \in 1..Len(name) :
      /\ i + Len(lower) - 1 <= Len(name)
      /\ \A k \in 1..Len(lower) : name[i + k - 1] \in {lower[k], upper[k]}

\* C24: specificAuthType is 'ADMIN' if the authorizer name contains 'admin'
\* case-insensitively, otherwise 'CUSTOMER' if it contains 'customer'
\* case-insensitively, otherwise the authorizationType (also when there is
\* no authorizer name).
C24_SpecificAuthType ==
    Returned("specific_auth_type") =>
      LET name == call.args.authorizer_name
          admin == ContainsWord(name, <<"a", "d", "m", "i", "n">>,
                                <<"A", "D", "M", "I", "N">>)
          customer == ContainsWord(name, <<"c", "u", "s", "t", "o", "m", "e", "r">>,
                                   <<"C", "U", "S", "T", "O", "M", "E", "R">>)
      IN call.out[1] = IF admin THEN "ADMIN"
                       ELSE IF customer THEN "CUSTOMER"
                       ELSE call.args.auth_type

\* A name with both words, 'customer' first.
C24_Witness ==
    /\ Returned("specific_auth_type")
    /\ call.args.authorizer_name =
         <<"c", "u", "s", "t", "o", "m", "e", "r", "A", "D", "M", "I", "N">>
    /\ call.args.auth_type = "CUSTOM"
    /\ call.out[1] = "ADMIN"

\* A policy file is well formed when it is a JSON object whose 'whitelist'
\* is a mapping.
WellFormed(file) ==
    file.kind = "object" /\ file.key # <<>> /\ file.key[1].type = "dict"

\* C25: each category is the policy of its own file when the file is well
\* formed, and the empty policy when the file is missing or malformed,
\* whatever the other two files are.
C25_MalformedFileIsEmptyPolicy ==
    Returned("load_whitelist") =>
      LET files == <<call.args.file1, call.args.file2, call.args.file3>> IN
      \A c \in 1..3 :
        call.out[1][c] = IF WellFormed(files[c]) THEN files[c].key[1]
                         ELSE EmptyPolicy

\* The findings of the error-free results, one list after the other.
RECURSIVE FindingsOfSucceeded(_, _)
FindingsOfSucceeded(rs, protected) ==
    IF rs = <<>> THEN <<>>
    ELSE (IF Head(rs).error # <<>> THEN <<>>
          ELSE IF protected THEN Head(rs).resources_with_auth
          ELSE Head(rs).resources_without_auth)
           \o FindingsOfSucceeded(Tail(rs), protected)

C28_ExplicitSuffixSet ==
    (Returned("filter_apis") /\ call.args.excluded_suffixes # <<>>) =>
      LET S == call.args.excluded_suffixes[1]
          EndsWithMember(api) ==
            \E suffix \in S :
              /\ Len(api.name) >= Len(suffix)
              /\ \A k \in 1..Len(suffix) :
                   api.name[Len(api.name) - Len(suffix) + k] = suffix[k]
      IN /\ IsOrderedSelection(call.out[1].filtered, call.args.apis, EndsWithMember)
         /\ S = {} => call.out[1].filtered = call.args.apis
         /\ call.out[1].excluded_count
              = Len(call.args.apis) - Len(call.out[1].filtered)

\* =====================================================================
\* ConcurrentAnalyzer.analyze_apis
\* =====================================================================
\* AnalysisResult, as _run_analysis_task builds it: success with the result
\* of analysis_fn, or success = False with error = str(e).
AnalysisResult(api, ok) ==
    [api_id |-> api, success |-> ok,
     error |-> IF ok THEN <<>> ELSE <<"analysis failed">>]

\* The executor's work queue is FIFO.
FirstSubmitted(i) == \A q \in AnalyzerApis : q < i => atask[q] # "pending"

\* Futures as_completed has not yielded yet.
Unyielded == {i \in AnalyzerApis : atask[i] \in {"pending", "running", "finished"}}

\* analyze_apis is called with n APIs and a pool of size w: every task is
\* submitted, the caller enters the as_completed loop.
AnalyzerInit ==
    /\ ScanInit
    /\ call = NoCall
    /\ apc = "collecting"
    /\ \E n \in 1..MaxAnalyzerApis :
         atask = [i \in AnalyzerApis |-> IF i <= n THEN "pending" ELSE "none"]
    /\ aresult = [i \in AnalyzerApis |-> <<>>]
    /\ aresults = <<>>
    /\ acallbacks = [i \in AnalyzerApis |-> 0]

\* A pool thread takes a queued _run_analysis_task; queued tasks also run
\* while the executor is being shut down with wait=True.
ATaskStart(i) ==
    /\ apc \in {"collecting", "unwinding"}
    /\ atask[i] = "pending"
    /\ FirstSubmitted(i)
    /\ Running(atask, AnalyzerApis) < MaxAnalyzerPool
    /\ atask' = [atask EXCEPT ![i] = "running"]
    /\ UNCHANGED <<scanState, call, apc, aresult, aresults, acallbacks>>

\* _run_analysis_task returns: analysis_fn returned, or raised and the
\* exception was turned into a failed AnalysisResult.
ATaskFinish(i) ==
    /\ atask[i] = "running"
    /\ \E ok \in BOOLEAN : aresult' = [aresult EXCEPT ![i] = <<AnalysisResult(i, ok)>>]
    /\ atask' = [atask EXCEPT ![i] = "finished"]
    /\ UNCHANGED <<scanState, call, apc, aresults, acallbacks>>

\* The AnalysisResult the loop body builds in 'except Exception as e'.
HandlerResult(api) ==
    [api_id |-> api, success |-> FALSE, error |-> <<"Error: callback failed">>]

\* The loop body after progress_callback raised in the try block: the
\* 'except Exception' branch appends a result of its own and invokes the
\* callback once more.
AfterCallbackError(rs, api) == [results |-> Append(rs, HandlerResult(api)), calls |-> 1]

\* The as_completed loop yields a finished future; one pass of the loop
\* body: results.append(result), progress_callback(result); when the
\* callback raises, the 'except Exception' branch; when the callback raises
\* there again, the exception leaves the loop and the 'with' block.
ACollect(i) ==
    /\ apc = "collecting"
    /\ atask[i] = "finished"
    /\ atask' = [atask EXCEPT ![i] = "collected"]
    /\ \/ /\ aresults' = Append(aresults, aresult[i][1])
          /\ acallbacks' = [acallbacks EXCEPT ![i] = @ + 1]
          /\ apc' = apc
       \/ LET h == AfterCallbackError(Append(aresults, aresult[i][1]), i) IN
          /\ aresults' = h.results
          /\ acallbacks' = [acallbacks EXCEPT ![i] = @ + 1 + h.calls]
          /\ apc' \in {apc, "unwinding"}
    /\ UNCHANGED <<scanState, call, aresult>>

\* The timeout passes while a task is still queued or running: the
\* as_completed iterator raises TimeoutError in the 'for' statement, outside
\* the try block of the loop body, and the 'with' block is left.
ATimeout ==
    /\ apc = "collecting"
    /\ \E i \in AnalyzerApis : atask[i] \in {"pending", "running"}
    /\ apc' = "unwinding"
    /\ UNCHANGED <<scanState, call, atask, aresult, aresults, acallbacks>>

\* Every future was yielded: analyze_apis returns results.
AReturn ==
    /\ apc = "collecting"
    /\ Unyielded = {}
    /\ apc' = "returned"
    /\ UNCHANGED <<scanState, call, atask, aresult, aresults, acallbacks>>

\* The executor has shut down (every task has run): the exception (the
\* TimeoutError, or the callback's) leaves analyze_apis, and the list
\* 'results' with it.
ARaise ==
    /\ apc = "unwinding"
    /\ \A i \in AnalyzerApis : atask[i] \notin {"pending", "running"}
    /\ apc' = "raised"
    /\ UNCHANGED <<scanState, call, atask, aresult, aresults, acallbacks>>

AnalyzerNext ==
    \/ \E i \in AnalyzerApis : ATaskStart(i)
    \/ \E i \in AnalyzerApis : ATaskFinish(i)
    \/ \E i \in AnalyzerApis : ACollect(i)
    \/ ATimeout
    \/ AReturn
    \/ ARaise

AnalyzerSpec == AnalyzerInit /\ [][AnalyzerNext]_vars

\* The APIs analyze_apis was called with.
SubmittedApis == {i \in AnalyzerApis : atask[i] # "none"}

\* C27: analyze_apis ends by returning, never by raising, also when the
\* timeout passed before an API was finished; the returned list holds
\* exactly one AnalysisResult for each input API, and the result of an
\* analysis that raised has success = False.
C27_OneResultPerApi ==
    apc \in {"returned", "raised"} =>
      /\ apc = "returned"
      /\ Len(aresults) = Cardinality(SubmittedApis)
      /\ \A i \in SubmittedApis :
           \E k \in 1..Len(aresults) :
             /\ aresults[k].api_id = i
             /\ aresults[k] = aresult[i][1]
             /\ (aresults[k].error # <<>>) = ~aresults[k].success

\* C38: when analyze_apis has returned, the list holds exactly one
\* AnalysisResult for each input API and progress_callback was invoked
\* exactly once for each.
C38_OneResultOneCallbackPerApi ==
    apc = "returned" =>
      \A i \in SubmittedApis :
        /\ Cardinality({k \in 1..Len(aresults) : aresults[k].api_id = i}) = 1
        /\ acallbacks[i] = 1
====
